---------------------------- MODULE Spec2Model ----------------------------
(***************************************************************************)
(* Verification model of the Pokemon_Champions battle simulator.           *)
(*                                                                         *)
(* Three machines of the repository are modelled:                          *)
(*   - the simple turn driver, struct Battle of src/src/battle.rs;         *)
(*   - the core turn driver, struct BattleState of                         *)
(*     src/pokemon-battle-core/src/sim/battle.rs with BattleEngine::step;  *)
(*   - the search of src/src/mcts.rs.                                      *)
(* Vectors are functions over 0..n-1 so that indices read as in the Rust   *)
(* source.  Option<usize> is encoded with NoIdx for None.  Every draw of   *)
(* the seeded random generator is a nondeterministic choice.  f32          *)
(* quantities are exact rationals <<numerator, denominator>>.              *)
(***************************************************************************)
EXTENDS Integers, Sequences, FiniteSets, TLC

\* ------------------------------------------------------------------ bounds
\* Number of turns the caller of a driver runs (the drivers loop up to 500).
MaxTurns == 2

\* Number of turns run_team_battle runs.
MaxCoreTurns == 4

\* Number of calls of BattleEngine::step its caller makes.
MaxEngineTurns == 3
\* Number of calls of BattleEngine::step whose StepResult is kept
MaxStepTurns == 2
\* turns a battle with a weather or terrain setter is followed for
MaxClimateTurns == 6

\* Largest move index a caller passes.
MaxMoveIdx == 1

\* The largest bench index a caller of BattleEngine::step passes in a switch.
MaxBenchIdx == 1

\* The values of gen_range(85..=100) in compute_damage that are explored.
DamageRolls == {85, 100}

\* The outcomes of roll_critical that are explored.
CritRolls == {FALSE}

\* None of an Option<usize>.
NoIdx == 0 - 1

\* ---------------------------------------------------------- exact rationals
\* an f32 quantity is a pair <<numerator, denominator>> in lowest terms with
\* a positive denominator
RECURSIVE Gcd(_, _)
Gcd(a, b) == IF b = 0 THEN a ELSE Gcd(b, a % b)

Reduce(n, d, g) == <<n \div g, d \div g>>
Rat(n, d) == Reduce(n, d, Gcd(d, n % d))
RMul(x, y) == Rat(x[1] * y[1], x[2] * y[2])
RDiv(x, y) == Rat(x[1] * y[2], x[2] * y[1])
RAdd(x, y) == Rat(x[1] * y[2] + y[1] * x[2], x[2] * y[2])
RInt(n) == <<n, 1>>
RLess(x, y) == x[1] * y[2] < y[1] * x[2]
\* f32::floor and f32::ceil
RFloor(x) == x[1] \div x[2]
RCeil(x) == 0 - ((0 - x[1]) \div x[2])
\* `as i32` / `as u32` of an f32: truncation toward zero, saturating at 0
\* for the unsigned cast
RTrunc(x) == IF x[1] >= 0 THEN x[1] \div x[2] ELSE 0 - ((0 - x[1]) \div x[2])
RAsU32(x) == IF x[1] <= 0 THEN 0 ELSE x[1] \div x[2]


Min(a, b) == IF a < b THEN a ELSE b

\* the element of a one-element set
The(S) == CHOOSE x \in S : TRUE
Max(a, b) == IF a > b THEN a ELSE b

\* ------------------------------------------------- simple driver: the data
Sides == {"A", "B"}

opponent(side) == IF side = "A" THEN "B" ELSE "A"

\* rows of the type chart for the attacking types of the moves below; every
\* other attacking type, "typeless" included, takes the `_ => 1.0` arm
single_type_effectiveness(attacking, defending) ==
    CASE attacking = "normal" ->
            IF defending \in {"rock", "steel"} THEN <<1, 2>>
            ELSE IF defending = "ghost" THEN <<0, 1>> ELSE <<1, 1>>
      [] attacking = "fire" ->
            IF defending \in {"fire", "water", "rock", "dragon"} THEN <<1, 2>>
            ELSE IF defending \in {"grass", "ice", "bug", "steel"} THEN <<2, 1>>
            ELSE <<1, 1>>
      [] attacking = "ground" ->
            IF defending \in {"fire", "electric", "poison", "rock", "steel"}
            THEN <<2, 1>>
            ELSE IF defending \in {"grass", "bug"} THEN <<1, 2>>
            ELSE IF defending = "flying" THEN <<0, 1>> ELSE <<1, 1>>
      [] attacking = "flying" ->
            IF defending \in {"grass", "fighting", "bug"} THEN <<2, 1>>
            ELSE IF defending \in {"electric", "rock", "steel"} THEN <<1, 2>>
            ELSE <<1, 1>>
      [] attacking = "bug" ->
            IF defending \in {"grass", "psychic", "dark"} THEN <<2, 1>>
            ELSE IF defending \in {"fire", "fighting", "poison", "flying",
                                   "ghost", "steel", "fairy"} THEN <<1, 2>>
            ELSE <<1, 1>>
      [] attacking = "rock" ->
            IF defending \in {"fire", "ice", "flying", "bug"} THEN <<2, 1>>
            ELSE IF defending \in {"fighting", "ground", "steel"} THEN <<1, 2>>
            ELSE <<1, 1>>
      [] OTHER -> <<1, 1>>

\* target_types is a sequence of type names
RECURSIVE type_effectiveness(_, _)
type_effectiveness(move_type, target_types) ==
    IF target_types = <<>> THEN <<1, 1>>
    ELSE RMul(single_type_effectiveness(move_type, Head(target_types)),
              type_effectiveness(move_type, Tail(target_types)))

NoBoosts == [atk |-> 0, def |-> 0, spa |-> 0, spd |-> 0, spe |-> 0,
             acc |-> 0, eva |-> 0]

\* struct Move with the serde defaults; an Option field is <<>> for None and
\* <<v>> for Some(v) (recoil and drain: <<num, den>>)
MoveDefaults ==
    [name |-> "", move_type |-> "normal", category |-> "Status", power |-> 0,
     accuracy |-> 100, priority |-> 0, pp |-> 10, crit_rate |-> 0,
     secondary |-> <<>>, recoil |-> <<>>, drain |-> <<>>,
     boosts |-> <<>>, self_boosts |-> <<>>, status |-> "None",
     status_chance |-> 100, set_weather |-> "None", hazard |-> "None",
     protect |-> FALSE, switch_after |-> FALSE, trick_room |-> FALSE]

struggle_move ==
    [MoveDefaults EXCEPT !.name = "Struggle", !.move_type = "typeless",
                         !.category = "Physical", !.power = 50, !.pp = 1,
                         !.recoil = <<1, 4>>]

Tackle ==
    [MoveDefaults EXCEPT !.name = "Tackle", !.category = "Physical",
                         !.power = 40, !.pp = 2]
\* a priority move that raises the speed of its user
AgileStrike ==
    [MoveDefaults EXCEPT !.name = "Agile Strike", !.category = "Physical",
                         !.power = 40, !.priority = 1,
                         !.self_boosts = <<[NoBoosts EXCEPT !.spe = 1]>>,
                         !.pp = 2]
DoubleEdge ==
    [MoveDefaults EXCEPT !.name = "Double-Edge", !.category = "Physical",
                         !.power = 120, !.recoil = <<1, 3>>, !.pp = 2]
StealthRock ==
    [MoveDefaults EXCEPT !.name = "Stealth Rock", !.move_type = "rock",
                         !.hazard = "Stealthrock", !.pp = 2]
UTurn ==
    [MoveDefaults EXCEPT !.name = "U-turn", !.move_type = "bug",
                         !.category = "Physical", !.power = 70,
                         !.switch_after = TRUE, !.pp = 2]
\* a team file may give any category to a move that carries trick_room; with
\* category status and no other effect execute_action returns before the
\* trick_room branch, so the entry below is a non-status one
TrickRoom ==
    [MoveDefaults EXCEPT !.name = "Trick Room", !.move_type = "psychic",
                         !.category = "Special", !.priority = 0 - 7,
                         !.trick_room = TRUE, !.pp = 2]
\* a move that carries a status of its own and a secondary one
DreamFang ==
    [MoveDefaults EXCEPT !.name = "Dream Fang", !.move_type = "dark",
                         !.category = "Physical", !.power = 20,
                         !.secondary = <<[chance |-> 50, status |-> "Sleep",
                                          boosts |-> <<>>,
                                          self_boosts |-> <<>>]>>,
                         !.status = "Toxic", !.pp = 2]
PowerUpPunch ==
    [MoveDefaults EXCEPT !.name = "Power-Up Punch", !.move_type = "fighting",
                         !.category = "Physical", !.power = 40,
                         !.self_boosts = <<[NoBoosts EXCEPT !.atk = 3]>>,
                         !.secondary =
                             <<[chance |-> 30, status |-> "None",
                                boosts |-> <<>>,
                                self_boosts |->
                                    <<[NoBoosts EXCEPT !.atk = 1]>>]>>,
                         !.pp = 3]

\* a protection move with a single use
Protect ==
    [MoveDefaults EXCEPT !.name = "Protect", !.priority = 4,
                         !.protect = TRUE, !.pp = 1]

\* a move that heals its user by half of the damage it deals
LeechBite ==
    [MoveDefaults EXCEPT !.name = "Leech Bite", !.move_type = "bug",
                         !.category = "Physical", !.power = 60,
                         !.drain = <<1, 2>>, !.pp = 2]

\* a Vec built from a sequence: index i of the source is index i here
Vec(seq) == [i \in 0 .. Len(seq) - 1 |-> seq[i + 1]]
VecLen(v) == Cardinality(DOMAIN v)

\* struct Pokemon of src/src/model.rs: the team members the runs are built
\* from
Pokedex ==
    [Lead    |-> [name |-> "Lead", types |-> <<"normal">>,
                  stats |-> [hp |-> 24, atk |-> 50, def |-> 50, spa |-> 50,
                             spd |-> 50, spe |-> 90],
                  moves |-> Vec(<<StealthRock, DoubleEdge>>),
                  item |-> "None", ability |-> "None"],
     Husk    |-> [name |-> "Husk", types |-> <<"bug", "ghost">>,
                  stats |-> [hp |-> 1, atk |-> 50, def |-> 50, spa |-> 50,
                             spd |-> 50, spe |-> 40],
                  moves |-> Vec(<<Tackle>>),
                  item |-> "None", ability |-> "None"],
     Anchor  |-> [name |-> "Anchor", types |-> <<"normal">>,
                  stats |-> [hp |-> 48, atk |-> 50, def |-> 50, spa |-> 50,
                             spd |-> 50, spe |-> 30],
                  moves |-> Vec(<<Tackle, UTurn>>),
                  item |-> "None", ability |-> "None"],
     Slugger |-> [name |-> "Slugger", types |-> <<"normal">>,
                  stats |-> [hp |-> 120, atk |-> 100, def |-> 50, spa |-> 50,
                             spd |-> 50, spe |-> 60],
                  moves |-> Vec(<<Tackle, DreamFang>>),
                  item |-> "None", ability |-> "None"],
     Bander  |-> [name |-> "Bander", types |-> <<"normal">>,
                  stats |-> [hp |-> 40, atk |-> 50, def |-> 50, spa |-> 50,
                             spd |-> 50, spe |-> 71],
                  moves |-> Vec(<<Tackle, AgileStrike>>),
                  item |-> "Choice Band", ability |-> "None"],
     Roomer  |-> [name |-> "Roomer", types |-> <<"psychic">>,
                  stats |-> [hp |-> 40, atk |-> 50, def |-> 50, spa |-> 50,
                             spd |-> 50, spe |-> 107],
                  moves |-> Vec(<<TrickRoom, PowerUpPunch>>),
                  item |-> "None", ability |-> "None"],
     Warden  |-> [name |-> "Warden", types |-> <<"normal">>,
                  stats |-> [hp |-> 60, atk |-> 50, def |-> 50, spa |-> 50,
                             spd |-> 50, spe |-> 20],
                  moves |-> Vec(<<Protect>>),
                  item |-> "None", ability |-> "None"],
     Keeper  |-> [name |-> "Keeper", types |-> <<"normal">>,
                  stats |-> [hp |-> 12, atk |-> 50, def |-> 50, spa |-> 50,
                             spd |-> 50, spe |-> 90],
                  moves |-> Vec(<<LeechBite>>),
                  item |-> "Focus Sash", ability |-> "None"],
     Bruiser |-> [name |-> "Bruiser", types |-> <<"normal">>,
                  stats |-> [hp |-> 120, atk |-> 100, def |-> 50, spa |-> 50,
                             spd |-> 50, spe |-> 60],
                  moves |-> Vec(<<Tackle>>),
                  item |-> "None", ability |-> "None"]]

\* the moves and battlers of mcts_prefers_finishing_move, with two more
\* opponents: one that only waits and one with a weak attack
Finisher ==
    [MoveDefaults EXCEPT !.name = "Finisher", !.category = "Physical",
                         !.power = 200]
Wait == [MoveDefaults EXCEPT !.name = "Wait"]

FinisherDex ==
    [Closer |-> [name |-> "Closer", types |-> <<"normal">>,
                 stats |-> [hp |-> 40, atk |-> 120, def |-> 80, spa |-> 120,
                            spd |-> 80, spe |-> 80],
                 moves |-> Vec(<<Finisher, Wait>>),
                 item |-> "None", ability |-> "None"],
     Foe    |-> [name |-> "Foe", types |-> <<"normal">>,
                 stats |-> [hp |-> 20, atk |-> 120, def |-> 80, spa |-> 120,
                            spd |-> 80, spe |-> 50],
                 moves |-> Vec(<<Finisher>>),
                 item |-> "None", ability |-> "None"],
     Idler  |-> [name |-> "Idler", types |-> <<"normal">>,
                 stats |-> [hp |-> 20, atk |-> 120, def |-> 80, spa |-> 120,
                            spd |-> 80, spe |-> 50],
                 moves |-> Vec(<<Wait>>),
                 item |-> "None", ability |-> "None"],
     Pecker |-> [name |-> "Pecker", types |-> <<"normal">>,
                 stats |-> [hp |-> 20, atk |-> 20, def |-> 80, spa |-> 120,
                            spd |-> 80, spe |-> 50],
                 moves |-> Vec(<<Tackle, Wait>>),
                 item |-> "None", ability |-> "None"]]

\* the roots mcts_action is asked about: Battle::new on one battler a side
FinisherFiles ==
    { [team_a |-> <<FinisherDex.Closer>>, team_b |-> <<FinisherDex[foe]>>,
       options |-> [auto_switch_on_faint |-> FALSE]] :
      foe \in {"Foe", "Idler", "Pecker"} }

\* a slow holder of a Custap Berry and the team files it is run in
Nibbler ==
    [name |-> "Nibbler", types |-> <<"normal">>,
     stats |-> [hp |-> 40, atk |-> 50, def |-> 50, spa |-> 50, spd |-> 50,
                spe |-> 30],
     moves |-> Vec(<<Tackle>>), item |-> "Custap Berry", ability |-> "None"]

CustapFiles ==
    { [team_a |-> <<Nibbler>>, team_b |-> <<Pokedex.Bruiser>>,
       options |-> [auto_switch_on_faint |-> FALSE]],
      [team_a |-> <<Nibbler, Pokedex.Husk>>, team_b |-> <<Pokedex.Bruiser>>,
       options |-> [auto_switch_on_faint |-> FALSE]] }

RainDance ==
    [MoveDefaults EXCEPT !.name = "Rain Dance", !.move_type = "water",
                         !.set_weather = "Rain"]

SunnyDay ==
    [MoveDefaults EXCEPT !.name = "Sunny Day", !.move_type = "fire",
                         !.set_weather = "Sun"]

\* a team file whose leads set a weather
ClimateFiles ==
    { [team_a |-> <<[name |-> "Dancer", types |-> <<"normal">>,
                     stats |-> [hp |-> 1, atk |-> 50, def |-> 50, spa |-> 50,
                                spd |-> 50, spe |-> 90],
                     moves |-> Vec(<<RainDance, Tackle>>),
                     item |-> "None", ability |-> "None"]>>,
       team_b |-> <<[name |-> "Basker", types |-> <<"normal">>,
                     stats |-> [hp |-> 1, atk |-> 50, def |-> 50, spa |-> 50,
                                spd |-> 50, spe |-> 60],
                     moves |-> Vec(<<SunnyDay, Tackle>>),
                     item |-> "None", ability |-> "None"],
                    [name |-> "Sprout", types |-> <<"normal">>,
                     stats |-> [hp |-> 1, atk |-> 50, def |-> 50, spa |-> 50,
                                spd |-> 50, spe |-> 40],
                     moves |-> Vec(<<Tackle>>),
                     item |-> "None", ability |-> "None"]>>,
       options |-> [auto_switch_on_faint |-> TRUE]] }

\* the team files the runs start from: team_a and team_b of struct TeamsFile
\* and the BattleOptions they are run with
TeamsFiles ==
    { [team_a |-> <<Pokedex.Lead, Pokedex.Husk, Pokedex.Anchor>>,
       team_b |-> <<Pokedex.Slugger>>,
       options |-> [auto_switch_on_faint |-> TRUE]],
      [team_a |-> <<Pokedex.Bander, Pokedex.Anchor>>,
       team_b |-> <<Pokedex.Roomer, Pokedex.Slugger>>,
       options |-> [auto_switch_on_faint |-> FALSE]],
      [team_a |-> <<Pokedex.Anchor, Pokedex.Husk>>,
       team_b |-> <<Pokedex.Warden>>,
       options |-> [auto_switch_on_faint |-> FALSE]],
      [team_a |-> <<Pokedex.Keeper>>,
       team_b |-> <<Pokedex.Bruiser>>,
       options |-> [auto_switch_on_faint |-> FALSE]] }


\* Battler::new
Battler_new(p) ==
    [pokemon |-> p, current_hp |-> p.stats.hp, status |-> "None",
     sleep_turns |-> 0, toxic_counter |-> 0, stat_stages |-> NoBoosts,
     move_pp |-> [i \in DOMAIN p.moves |-> p.moves[i].pp],
     last_move |-> NoIdx, choice_lock |-> NoIdx, protecting |-> FALSE,
     sash_used |-> FALSE, berry_used |-> FALSE]

NoHazards == [stealth_rock |-> FALSE, spikes |-> 0, toxic_spikes |-> 0]
NoScreens == [reflect |-> 0, light_screen |-> 0]

\* Battle::new_with_options
new_with_options(team_a, team_b, options) ==
    [team |-> [A |-> [i \in 0 .. Len(team_a) - 1 |-> Battler_new(team_a[i + 1])],
               B |-> [i \in 0 .. Len(team_b) - 1 |-> Battler_new(team_b[i + 1])]],
     active |-> [s \in Sides |-> 0],
     weather |-> [current |-> "None", turns |-> 0],
     side_state |-> [s \in Sides |-> [hazards |-> NoHazards,
                                      screens |-> NoScreens]],
     trick_room |-> FALSE, trick_room_turns |-> 0,
     options |-> options,
     last_turn_move_events |-> <<>>]

\* --------------------------------------------- simple driver: the helpers
\* the generated ITEM_TABLE behind item_effect, for the items of the Pokedex
item_effect(item) ==
    [speed_mult  |-> IF item = "Choice Scarf" THEN <<3, 2>> ELSE <<1, 1>>,
     choice_stat |-> IF item = "Choice Band" THEN "atk"
                     ELSE IF item = "Choice Specs" THEN "spa" ELSE "None",
     life_orb    |-> item = "Life Orb",
     sash_like   |-> item = "Focus Sash"]

active(b, side) == b.team[side][b.active[side]]

has_item(battler, name) == battler.pokemon.item = name
has_ability(battler, name) == battler.pokemon.ability = name

is_fainted(battler) == battler.current_hp <= 0
max_hp(battler) == battler.pokemon.stats.hp

alive_count(b, side) ==
    Cardinality({i \in DOMAIN b.team[side] : ~is_fainted(b.team[side][i])})

has_type_of(types, names) == \E i \in DOMAIN types : types[i] \in names

is_grounded(battler) ==
    ~(has_ability(battler, "Levitate")
      \/ has_type_of(battler.pokemon.types, {"flying"}))

is_choice_item(battler) ==
    battler.pokemon.item \in {"Choice Band", "Choice Specs", "Choice Scarf"}

stage_modifier(stage) ==
    IF stage >= 0 THEN Rat(2 + stage, 2) ELSE Rat(2, 2 - stage)

\* the battler after the entry hazards; hz is the Hazards record read
hazards_on(battler, hz) ==
    LET rock == RTrunc(RMul(RMul(RInt(max_hp(battler)), <<1, 8>>),
                       type_effectiveness("rock", battler.pokemon.types)))
        frac == IF hz.spikes = 1 THEN <<1, 8>>
                ELSE IF hz.spikes = 2 THEN <<1, 6>> ELSE <<1, 4>>
        spk == RCeil(RMul(RInt(max_hp(battler)), frac))
        toxic_spikes(t2) ==
            IF hz.toxic_spikes > 0 /\ is_grounded(t2) /\ t2.status = "None"
            THEN [t2 EXCEPT !.status = IF hz.toxic_spikes >= 2 THEN "Toxic"
                                       ELSE "Poison"]
            ELSE t2
        spikes(t1) ==
            toxic_spikes(IF hz.spikes > 0 /\ is_grounded(t1)
                         THEN [t1 EXCEPT !.current_hp = @ - Max(spk, 1)]
                         ELSE t1)
    IN  spikes(IF hz.stealth_rock
               THEN [battler EXCEPT !.current_hp = @ - Max(rock, 1)]
               ELSE battler)

\* Battle::apply_hazards_on_switch: the hazards read are those stored under
\* the opponent's index of side_state
apply_hazards_on_switch(b, side) ==
    IF has_item(active(b, side), "Heavy-Duty Boots") THEN b
    ELSE [b EXCEPT !.team[side][b.active[side]] =
                       hazards_on(@, b.side_state[opponent(side)].hazards)]

\* Battle::switch_to without its test of the target being fainted
switch_to_fainted(b, side, target_idx) ==
    IF target_idx \notin DOMAIN b.team[side] THEN b
    ELSE IF b.active[side] = target_idx THEN b
    ELSE apply_hazards_on_switch(
             [b EXCEPT !.team[side][b.active[side]].choice_lock = NoIdx,
                       !.team[side][b.active[side]].last_move = NoIdx,
                       !.active[side] = target_idx,
                       !.team[side][target_idx].protecting = FALSE],
             side)

\* Battle::switch_to
switch_to(b, side, target_idx) ==
    IF target_idx \notin DOMAIN b.team[side] THEN b
    ELSE IF is_fainted(b.team[side][target_idx]) THEN b
    ELSE IF b.active[side] = target_idx THEN b
    ELSE apply_hazards_on_switch(
             [b EXCEPT !.team[side][b.active[side]].choice_lock = NoIdx,
                       !.team[side][b.active[side]].last_move = NoIdx,
                       !.active[side] = target_idx,
                       !.team[side][target_idx].protecting = FALSE],
             side)

\* the first element of a non-empty set of indices
first_of(S) == CHOOSE i \in S : \A j \in S : i <= j

\* Battle::send_next: the first non-fainted member of the team, if any
send_next(b, side) ==
    IF alive_count(b, side) = 0 THEN b
    ELSE switch_to(b, side,
             first_of({i \in DOMAIN b.team[side] :
                          ~is_fainted(b.team[side][i])}))

\* Battle::calc_effective_speed
calc_effective_speed(b, side) ==
    LET paralysis(s0, bt) ==
            IF bt.status = "Paralysis" THEN RMul(s0, <<1, 4>>) ELSE s0
        room(s2) == IF b.trick_room
                    THEN RAdd(RInt(10000), RMul(RInt(0 - 1), s2)) ELSE s2
        speed_of(bt) ==
            room(RMul(paralysis(RMul(RInt(bt.pokemon.stats.spe),
                                     stage_modifier(bt.stat_stages.spe)), bt),
                      item_effect(bt.pokemon.item).speed_mult))
    IN  RAsU32(speed_of(active(b, side)))

\* Battle::resolve_move: <<move, Some(i)>> or <<struggle, None>>
resolve_move(b, side, idx) ==
    IF idx # NoIdx /\ idx \in DOMAIN active(b, side).pokemon.moves
    THEN <<active(b, side).pokemon.moves[idx], idx>>
    ELSE <<struggle_move, NoIdx>>

\* Battle::fractional_priority: <<frac, battle>>; claw is the gen_ratio(1, 5)
\* draw of a Quick Claw
fractional_priority(b, side, move_def, claw) ==
    LET custap(bt) == move_def.priority <= 0 /\ has_item(bt, "Custap Berry")
                      /\ ~bt.berry_used /\ bt.current_hp * 4 <= max_hp(bt)
        frac(bt) ==
            IF has_item(bt, "Lagging Tail") \/ has_item(bt, "Full Incense")
            THEN Rat(0 - 1, 10)
            ELSE IF custap(bt) THEN <<1, 10>>
            ELSE IF move_def.priority <= 0 /\ has_item(bt, "Quick Claw")
                    /\ claw
            THEN <<1, 10>> ELSE <<0, 1>>
    IN  <<frac(active(b, side)),
          IF custap(active(b, side))
          THEN [b EXCEPT !.team[side][b.active[side]].berry_used = TRUE]
          ELSE b>>

\* struct PlannedAction
PlannedAction(b, side, rm, priority_value, tie) ==
    [side |-> side, move_index |-> rm[2],
     switch_target |-> NoIdx, move_def |-> rm[1],
     priority_value |-> priority_value,
     speed |-> calc_effective_speed(b, side), tie_break |-> tie,
     battler_slot |-> b.active[side]]

\* Battle::push_move_action: <<planned action, battle>>
push_move_action(b, side, idx, claw, tie) ==
    LET planned(rm, fp) ==
            <<PlannedAction(fp[2], side, rm,
                            RAdd(RInt(rm[1].priority), fp[1]), tie), fp[2]>>
        with_move(rm) ==
            planned(rm, fractional_priority(b, side, rm[1], claw))
    IN  with_move(resolve_move(b, side, idx))

\* a switch that is planned with the priority of an ordinary move
push_switch_action_unranked(b, side, target_idx, tie) ==
    [PlannedAction(b, side, <<struggle_move, NoIdx>>, RInt(0), tie)
        EXCEPT !.switch_target = target_idx]

\* Battle::push_switch_action
push_switch_action(b, side, target_idx, tie) ==
    [PlannedAction(b, side, <<struggle_move, NoIdx>>, RInt(1000), tie)
        EXCEPT !.switch_target = target_idx]

\* Battle::push_action on PlayerAction::Move(idx) / PlayerAction::Switch(idx)
push_action(b, side, action, claw, tie) ==
    IF action.kind = "Move"
    THEN push_move_action(b, side, action.idx, claw, tie)
    ELSE <<push_switch_action(b, side, action.idx, tie), b>>

\* the comparator of the sort_by in planned_actions: lhs sorts before rhs
sorts_before(lhs, rhs) ==
    \/ RLess(rhs.priority_value, lhs.priority_value)
    \/ /\ rhs.priority_value = lhs.priority_value
       /\ \/ rhs.speed < lhs.speed
          \/ rhs.speed = lhs.speed /\ lhs.tie_break < rhs.tie_break

\* the stable sort of a vector of at most two planned actions
sort_actions(acts) ==
    IF Len(acts) = 2 /\ sorts_before(acts[2], acts[1])
    THEN <<acts[2], acts[1]>>
    ELSE acts

\* one push of Battle::planned_actions on <<actions, battle>>: the action
\* given for the side, or its struggle when none is given and the side has
\* a battler left
plan_side(vb, side, action, claw, tie) ==
    LET pushed(p) == <<Append(vb[1], p[1]), p[2]>>
    IN  IF action.kind # "None"
        THEN pushed(push_action(vb[2], side, action, claw, tie))
        ELSE vb

plan_struggle(vb, side, action, claw, tie) ==
    LET pushed(p) == <<Append(vb[1], p[1]), p[2]>>
    IN  IF action.kind = "None" /\ alive_count(vb[2], side) > 0
        THEN pushed(push_move_action(vb[2], side, NoIdx, claw, tie))
        ELSE vb

\* Battle::planned_actions: <<sorted actions, battle>>; an Option action is
\* [kind |-> "None" | "Move" | "Switch", idx |-> n]
planned_actions(b, a_action, b_action, claw, tie) ==
    LET sorted(vb) == <<sort_actions(vb[1]), vb[2]>>
    IN  sorted(
          plan_struggle(
            plan_struggle(
              plan_side(
                plan_side(<<<<>>, b>>, "A", a_action, claw["A"], tie["A"]),
                "B", b_action, claw["B"], tie["B"]),
              "A", a_action, claw["A"], tie["A"]),
            "B", b_action, claw["B"], tie["B"]))

\* Battle::terminal_result
terminal_result(b) ==
    IF alive_count(b, "A") = 0 /\ alive_count(b, "B") = 0 THEN "Tie"
    ELSE IF alive_count(b, "A") = 0 THEN "BWins"
    ELSE IF alive_count(b, "B") = 0 THEN "AWins"
    ELSE "None"

\* clamp_stage letting every value through
clamp_stage_unclamped(v) == v

\* ------------------------------------------- simple driver: action effects
clamp_stage(v) == Min(Max(v, 0 - 6), 6)

\* Battler::apply_boosts
apply_boosts(battler, boosts) ==
    [battler EXCEPT !.stat_stages =
        [k \in DOMAIN NoBoosts |-> clamp_stage(@[k] + boosts[k])]]

\* Battler::heal
heal(battler, amount) ==
    [battler EXCEPT !.current_hp = Min(@ + amount, max_hp(battler))]

\* a consume_pp that takes a PP whatever is left
consume_pp_unchecked(b, side, move_idx) ==
    IF move_idx \in DOMAIN active(b, side).move_pp
    THEN <<TRUE, [b EXCEPT !.team[side][b.active[side]].move_pp[move_idx]
                               = @ - 1]>>
    ELSE <<FALSE, b>>

\* Battle::consume_pp: <<consumed, battle>>
consume_pp(b, side, move_idx) ==
    IF move_idx \in DOMAIN active(b, side).move_pp
       /\ active(b, side).move_pp[move_idx] > 0
    THEN <<TRUE, [b EXCEPT !.team[side][b.active[side]].move_pp[move_idx]
                               = @ - 1]>>
    ELSE <<FALSE, b>>

\* Battle::blocked_by_status: <<blocked, battle>>; low is the outcome
\* roll < 0.25 under paralysis and roll < 0.2 under freeze
blocked_by_status(b, side, low) ==
    LET blocked(bt) ==
          CASE bt.status = "Sleep" ->
                 IF bt.sleep_turns > 0
                 THEN <<TRUE, [b EXCEPT
                         !.team[side][b.active[side]].sleep_turns = @ - 1]>>
                 ELSE <<FALSE, [b EXCEPT
                         !.team[side][b.active[side]].status = "None"]>>
            [] bt.status = "Paralysis" -> <<low, b>>
            [] bt.status = "Freeze" ->
                 IF low
                 THEN <<FALSE, [b EXCEPT
                         !.team[side][b.active[side]].status = "None"]>>
                 ELSE <<TRUE, b>>
            [] OTHER -> <<FALSE, b>>
    IN  blocked(active(b, side))

is_ground_immune(battler, move_def) ==
    /\ move_def.move_type = "ground"
    /\ \/ has_ability(battler, "Levitate")
       \/ has_type_of(battler.pokemon.types, {"flying"})

stab_modifier(types, move_type, adaptability) ==
    IF has_type_of(types, {move_type})
    THEN (IF adaptability THEN <<2, 1>> ELSE <<3, 2>>)
    ELSE <<1, 1>>

weather_modifier(weather, move_type) ==
    CASE weather = "Rain" ->
            IF move_type = "water" THEN <<3, 2>>
            ELSE IF move_type = "fire" THEN <<1, 2>> ELSE <<1, 1>>
      [] weather = "Sun" ->
            IF move_type = "fire" THEN <<3, 2>>
            ELSE IF move_type = "water" THEN <<1, 2>> ELSE <<1, 1>>
      [] OTHER -> <<1, 1>>

screen_modifier(category, state) ==
    IF category = "Physical" /\ state.screens.reflect > 0 THEN <<1, 2>>
    ELSE IF category = "Special" /\ state.screens.light_screen > 0
    THEN <<1, 2>>
    ELSE <<1, 1>>

\* Battle::compute_damage with the draws crit (roll_crit) and roll
\* (gen_range(85..=100))
compute_damage(b, side, target_side, move_def, crit, roll) ==
    LET phys == move_def.category = "Physical"
        staged(stat, stage) ==
            IF crit THEN RInt(stat) ELSE RMul(RInt(stat), stage_modifier(stage))
        burned(atk1, attacker) ==
            IF phys /\ attacker.status = "Burn" /\ ~has_ability(attacker, "Guts")
            THEN RMul(atk1, <<1, 2>>) ELSE atk1
        choiced(atk2, item) ==
            IF (item.choice_stat = "atk" /\ phys)
               \/ (item.choice_stat = "spa" /\ move_def.category = "Special")
            THEN RMul(atk2, <<3, 2>>) ELSE atk2
        attack(attacker) ==
            choiced(burned(staged(IF phys THEN attacker.pokemon.stats.atk
                                  ELSE attacker.pokemon.stats.spa,
                                  IF phys THEN attacker.stat_stages.atk
                                  ELSE attacker.stat_stages.spa), attacker),
                    item_effect(attacker.pokemon.item))
        defense(defender) ==
            staged(IF phys THEN defender.pokemon.stats.def
                   ELSE defender.pokemon.stats.spd,
                   IF phys THEN defender.stat_stages.def
                   ELSE defender.stat_stages.spd)
        base(atk3, def1) ==
            RAdd(RDiv(RDiv(RMul(RMul(RInt(22), RInt(move_def.power)), atk3),
                           def1), RInt(50)), RInt(2))
        modified(base0, attacker, defender) ==
            RMul(RMul(RMul(RMul(RMul(base0,
                stab_modifier(attacker.pokemon.types, move_def.move_type,
                              has_ability(attacker, "Adaptability"))),
                type_effectiveness(move_def.move_type, defender.pokemon.types)),
                weather_modifier(b.weather.current, move_def.move_type)),
                screen_modifier(move_def.category, b.side_state[target_side])),
                <<roll, 100>>)
        orb(base1, attacker) ==
            IF item_effect(attacker.pokemon.item).life_orb
            THEN RMul(base1, <<13, 10>>) ELSE base1
        critical(base2) == IF crit THEN RMul(base2, <<3, 2>>) ELSE base2
        damage(attacker, defender) ==
            IF move_def.power = 0 THEN 0
            ELSE IF is_ground_immune(defender, move_def) THEN 0
            ELSE IF move_def.category = "Status" THEN 0
            ELSE IF type_effectiveness(move_def.move_type,
                                       defender.pokemon.types)[1] = 0 THEN 0
            ELSE Max(RFloor(critical(orb(modified(
                        base(attack(attacker), defense(defender)),
                        attacker, defender), attacker))), 1)
    IN  damage(active(b, side), active(b, target_side))

\* Battle::apply_damage: <<battle, applied>>
apply_damage(b, target_side, damage) ==
    LET saved(target) ==
            /\ target.current_hp = max_hp(target)
            /\ \/ item_effect(target.pokemon.item).sash_like
               \/ has_ability(target, "Sturdy")
            /\ ~target.sash_used
            /\ damage >= target.current_hp
        dealt(actual, sash) ==
            <<[b EXCEPT !.team[target_side][b.active[target_side]] =
                          [@ EXCEPT !.current_hp = @ - actual,
                                    !.sash_used = IF sash THEN TRUE ELSE @]],
              Max(actual, 1)>>
        hit(target) ==
            dealt(IF saved(target) THEN target.current_hp - 1 ELSE damage,
                  saved(target))
    IN  hit(active(b, target_side))

\* Battle::apply_recoil_and_drain
apply_recoil_and_drain(b, side, target_side, move_def, dealt) ==
    LET me == b.active[side]
        hp == max_hp(active(b, side))
        recoil == IF move_def.name = "Struggle"
                  THEN RCeil(RMul(RInt(hp), <<1, 4>>))
                  ELSE RCeil(Rat(dealt * move_def.recoil[1],
                                 move_def.recoil[2]))
        helmet(b3) ==
            IF has_item(active(b3, target_side), "Rocky Helmet")
               /\ ~is_fainted(active(b3, side))
            THEN [b3 EXCEPT !.team[side][me].current_hp =
                                @ - RCeil(RMul(RInt(hp), <<4, 25>>))]
            ELSE b3
        drain(b2) ==
            helmet(IF move_def.drain # <<>>
                   THEN [b2 EXCEPT !.team[side][me] =
                           heal(@, RCeil(Rat(dealt * move_def.drain[1],
                                             move_def.drain[2])))]
                   ELSE b2)
        orb(b1) ==
            drain(IF item_effect(active(b, side).pokemon.item).life_orb
                  THEN [b1 EXCEPT !.team[side][me].current_hp =
                                      @ - RCeil(RMul(RInt(hp), <<1, 10>>))]
                  ELSE b1)
    IN  orb(IF move_def.recoil # <<>>
            THEN [b EXCEPT !.team[side][me].current_hp = @ - recoil]
            ELSE b)

\* Battle::set_status without its can_set test
set_status_overwrite(b, side, status, sleep) ==
    [b EXCEPT !.team[side][b.active[side]] =
        [@ EXCEPT !.status = status,
                  !.sleep_turns = IF status = "Sleep" THEN sleep ELSE @,
                  !.toxic_counter = IF status = "Toxic" THEN 0 ELSE @]]

\* Battle::set_status; sleep is the gen_range(1..=3) draw
set_status(b, side, status, sleep) ==
    IF active(b, side).status # "None" THEN b
    ELSE [b EXCEPT !.team[side][b.active[side]] =
            [@ EXCEPT !.status = status,
                      !.sleep_turns = IF status = "Sleep" THEN sleep ELSE @,
                      !.toxic_counter = IF status = "Toxic" THEN 0 ELSE @]]

\* the branch of Battle::apply_secondary for a secondary effect that
\* triggered
apply_secondary_effect_of(b, actor, target_side, s, sleep) ==
    LET own(b2) ==
            IF s.self_boosts # <<>>
            THEN [b2 EXCEPT !.team[actor][b.active[actor]] =
                                apply_boosts(@, s.self_boosts[1])]
            ELSE b2
        foe(b1) ==
            own(IF s.boosts # <<>>
                THEN [b1 EXCEPT !.team[target_side][b.active[target_side]] =
                                    apply_boosts(@, s.boosts[1])]
                ELSE b1)
    IN  foe(IF s.status # "None"
            THEN set_status(b, target_side, s.status, sleep) ELSE b)

\* Battle::apply_secondary; sec and sta are the outcomes of the two chance
\* rolls
apply_secondary(b, actor, target_side, move_def, sec, sta, sleep) ==
    LET primary(b3) ==
            IF move_def.status # "None" /\ sta
            THEN set_status(b3, target_side, move_def.status, sleep)
            ELSE b3
    IN  primary(IF move_def.secondary # <<>> /\ sec
                THEN apply_secondary_effect_of(b, actor, target_side,
                                               move_def.secondary[1], sleep)
                ELSE b)

\* Battle::apply_stat_boosts
apply_stat_boosts(b, side, target_side, move_def) ==
    LET own(b1) ==
            IF move_def.self_boosts # <<>>
            THEN [b1 EXCEPT !.team[side][b.active[side]] =
                                apply_boosts(@, move_def.self_boosts[1])]
            ELSE b1
    IN  own(IF move_def.boosts # <<>>
            THEN [b EXCEPT !.team[target_side][b.active[target_side]] =
                               apply_boosts(@, move_def.boosts[1])]
            ELSE b)

\* Battle::set_weather
set_weather(b, weather) ==
    [b EXCEPT !.weather = [current |-> weather, turns |-> 5]]

\* Battle::set_hazard
set_hazard(b, side, hazard) ==
    CASE hazard = "Stealthrock" ->
            [b EXCEPT !.side_state[side].hazards.stealth_rock = TRUE]
      [] hazard = "Spikes" ->
            [b EXCEPT !.side_state[side].hazards.spikes = Min(@ + 1, 3)]
      [] hazard = "Toxicspikes" ->
            [b EXCEPT !.side_state[side].hazards.toxic_spikes = Min(@ + 1, 2)]

\* the push of a MoveEventView on last_turn_move_events
push_event(b, side, pokemon_name, move_def, outcome) ==
    [b EXCEPT !.last_turn_move_events =
        Append(@, [side |-> side, pokemon |-> pokemon_name,
                   move_name |-> move_def.name, outcome |-> outcome])]

\* the part of Battle::execute_action after the accuracy roll and the
\* trick_room branch; the moves of the Pokedex carry no multihit, so the
\* hit loop runs once
execute_hit(b, action, d) ==
    LET side == action.side
        target_side == opponent(action.side)
        move_def == action.move_def
        outcome(total_damage) ==
            IF total_damage > 0 THEN "Hit"
            ELSE IF move_def.category = "Status" /\ move_def.power = 0
            THEN "StatusOnly" ELSE "NoEffect"
        locked(b4) ==
            IF action.move_index # NoIdx
            THEN [b4 EXCEPT !.team[side][b4.active[side]] =
                   [@ EXCEPT !.last_move = action.move_index,
                             !.choice_lock =
                                 IF is_choice_item(active(b4, side))
                                 THEN action.move_index ELSE @]]
            ELSE b4
        pivot(b3) ==
            locked(IF move_def.switch_after /\ ~is_fainted(active(b3, side))
                   THEN send_next(b3, side) ELSE b3)
        hazard(b2) ==
            pivot(IF move_def.hazard # "None"
                  THEN set_hazard(b2, target_side, move_def.hazard) ELSE b2)
        weather(b1) ==
            hazard(IF move_def.set_weather # "None"
                   THEN set_weather(b1, move_def.set_weather) ELSE b1)
        effects(ad) ==
            push_event(
                weather(IF ad[2] > 0
                        THEN apply_stat_boosts(
                               apply_secondary(
                                 apply_recoil_and_drain(ad[1], side,
                                     target_side, move_def, ad[2]),
                                 side, target_side, move_def,
                                 d.sec, d.sta, d.sleep),
                               side, target_side, move_def)
                        ELSE ad[1]),
                side, active(b, side).pokemon.name, move_def, outcome(ad[2]))
        hit(damage) ==
            effects(IF damage = 0 THEN <<b, 0>>
                    ELSE apply_damage(b, target_side, damage))
    IN  hit(IF is_fainted(active(b, target_side)) THEN 0
            ELSE compute_damage(b, side, target_side, move_def,
                                d.crit, d.roll))

\* Battle::execute_action; d holds the draws of the random generator
execute_action(b, action, d) ==
    LET side == action.side
        move_def == action.move_def
        name == active(b, action.side).pokemon.name
        acted(b1) ==
            IF move_def.protect
            THEN push_event(
                   [b1 EXCEPT !.team[side][b1.active[side]].protecting = TRUE],
                   side, name, move_def, "Protected")
            ELSE IF /\ move_def.category = "Status" /\ move_def.power = 0
                    /\ move_def.status = "None" /\ move_def.boosts = <<>>
                    /\ move_def.hazard = "None"
                    /\ move_def.set_weather = "None"
            THEN push_event(b1, side, name, move_def, "StatusOnly")
            ELSE IF active(b1, opponent(side)).protecting
            THEN push_event(b1, side, name, move_def, "Protected")
            ELSE IF ~d.acc THEN push_event(b1, side, name, move_def, "Missed")
            ELSE IF move_def.trick_room
            THEN push_event([b1 EXCEPT !.trick_room = ~@,
                                       !.trick_room_turns = 5],
                            side, name, move_def, "StatusOnly")
            ELSE execute_hit(b1, action, d)
        unblocked(bs) ==
            IF bs[1] THEN push_event(bs[2], side, name, move_def, "Missed")
            ELSE acted(bs[2])
        with_pp(pp) ==
            IF ~pp[1] THEN b
            ELSE unblocked(blocked_by_status(pp[2], side, d.low))
    IN  IF action.switch_target # NoIdx
        THEN switch_to(b, side, action.switch_target)
        ELSE with_pp(IF action.move_index # NoIdx
                     THEN consume_pp(b, side, action.move_index)
                     ELSE <<TRUE, b>>)

\* the residual damage of one side in Battle::end_of_turn
residual_damage(battler) ==
    CASE battler.status \in {"Burn", "Poison"} -> max_hp(battler) \div 16
      [] battler.status = "Toxic" ->
            (max_hp(battler) * Max(battler.toxic_counter, 1)) \div 16
      [] OTHER -> 0

\* the Leftovers and Sitrus Berry step of Battle::end_of_turn
end_of_turn_items(battler) ==
    LET berry(b1) ==
            IF /\ ~b1.berry_used /\ has_item(b1, "Sitrus Berry")
               /\ b1.current_hp * 2 <= max_hp(b1)
            THEN [heal(b1, RCeil(Rat(max_hp(b1), 4)))
                      EXCEPT !.berry_used = TRUE]
            ELSE b1
    IN  IF is_fainted(battler) THEN battler
        ELSE berry(IF has_item(battler, "Leftovers")
                   THEN heal(battler, RCeil(Rat(max_hp(battler), 16)))
                   ELSE battler)

\* the first loop body of Battle::end_of_turn
end_of_turn_side(battler) ==
    end_of_turn_items(
        IF battler.status \in {"Burn", "Poison", "Toxic"}
        THEN [battler EXCEPT
                !.current_hp = @ - residual_damage(battler),
                !.toxic_counter = IF battler.status = "Toxic"
                                  THEN Min(@ + 1, 255) ELSE @]
        ELSE battler)

\* the weather loop body of Battle::end_of_turn
weather_damage(battler, weather) ==
    IF is_fainted(battler) THEN battler
    ELSE IF \/ /\ weather = "Sand"
               /\ ~has_type_of(battler.pokemon.types,
                               {"rock", "ground", "steel"})
            \/ /\ weather \in {"Hail", "Snow"}
               /\ ~has_type_of(battler.pokemon.types, {"ice"})
    THEN [battler EXCEPT !.current_hp = @ - RCeil(Rat(max_hp(battler), 16))]
    ELSE battler

\* the weather countdown of Battle::end_of_turn
weather_countdown(w) ==
    IF w.current = "None" \/ w.turns = 0 THEN w
    ELSE [current |-> IF w.turns = 1 THEN "None" ELSE w.current,
          turns |-> w.turns - 1]

\* the replacement loop at the end of Battle::end_of_turn
end_of_turn_replace(b) ==
    LET side_b(b1) ==
            IF is_fainted(active(b1, "B")) /\ b1.options.auto_switch_on_faint
            THEN send_next(b1, "B") ELSE b1
    IN  side_b(IF is_fainted(active(b, "A"))
                  /\ b.options.auto_switch_on_faint
               THEN send_next(b, "A") ELSE b)

\* Battle::end_of_turn
end_of_turn(b) ==
    LET room(b2) ==
            end_of_turn_replace(
                IF b2.trick_room /\ b2.trick_room_turns > 0
                THEN [b2 EXCEPT !.trick_room_turns = @ - 1,
                                !.trick_room = (b2.trick_room_turns # 1)]
                ELSE b2)
        weather(b1) ==
            room([b1 EXCEPT
                    !.team["A"][b.active["A"]] =
                        weather_damage(@, b.weather.current),
                    !.team["B"][b.active["B"]] =
                        weather_damage(@, b.weather.current),
                    !.weather = weather_countdown(@)])
    IN  weather([b EXCEPT
                    !.team["A"][b.active["A"]] = end_of_turn_side(@),
                    !.team["B"][b.active["B"]] = end_of_turn_side(@)])

\* ------------------------------------------ simple driver: the state machine
VARIABLES
    driver,     \* which caller runs: "simple", "team", "engine", "mcts", or
                \* "step": the engine with its StepResult kept
    battle,     \* struct Battle
    actions,    \* the planned actions run_turn_with_actions has yet to run
    pc,         \* "idle" between turns, "turn" inside run_turn_with_actions
    turn,       \* number of turns the caller has run
    planning,   \* history: what planned_actions saw when the turn was planned
    executed,   \* history: the actions execute_action ran in this turn, with
                \* the user before the action, whether the active slot of
                \* the side changed, the battler that became active as it
                \* was before the action, the target before and after the
                \* action and whether the action pushed a Hit event
    state,          \* struct BattleState
    core_pc,        \* position inside a turn of the core driver
    core_actions,   \* the actions of the turn and the order execute_turn took
    core_executed,  \* history: the calls of resolve_action in this turn
    step_result,    \* struct StepResult of the last BattleEngine::step
    mcts,           \* two calls of mcts_action on the root state `battle`
    toxic_age,      \* history: per side, the end-of-turn phases its active
                    \* battler has been through since it was badly
                    \* poisoned, without leaving the field
    matrix,         \* two calls of compute_matrix with the same arguments
    battle_result   \* the BattleResult the driver has returned, "None"
                    \* while it runs

legacy_vars == <<battle, actions, pc, turn, planning, executed>>

core_vars == <<state, core_pc, core_actions, core_executed, step_result>>

vars == <<driver, legacy_vars, core_vars, mcts, toxic_age, matrix,
          battle_result>>


NoAction == [kind |-> "None", idx |-> 0]

\* Battle::legal_actions, as the set of move indices
legal_actions(b, side) ==
    LET bt == active(b, side)
        usable == {i \in DOMAIN bt.pokemon.moves :
                       i \in DOMAIN bt.move_pp /\ bt.move_pp[i] > 0}
    IN  IF bt.choice_lock \in usable THEN {bt.choice_lock} ELSE usable

\* the Option<PlayerAction> values a caller passes for a side: None as
\* choose_action and select_action return it, when legal_actions is empty;
\* otherwise any move index up to MaxMoveIdx or any switch target, as the
\* prompt of battle/src/main.rs lets a player enter them
PlayerActions(b, side) ==
    (IF legal_actions(b, side) = {} THEN {NoAction} ELSE {})
    \cup {[kind |-> "Move", idx |-> i] : i \in 0 .. MaxMoveIdx}
    \cup {[kind |-> "Switch", idx |-> i] : i \in DOMAIN b.team[side]}

\* effective speed before the trick-room inversion
plain_speed(b, side) == calc_effective_speed([b EXCEPT !.trick_room = FALSE], side)

NoPlanning == [trick_room |-> FALSE, speed |-> [s \in Sides |-> 0]]

\* the history toxic_age after a step of the simple driver from b0 to b1;
\* eot tells the step is the end-of-turn phase
legacy_age(b0, b1, age, eot) ==
    [s \in Sides |->
        IF b1.active[s] # b0.active[s] \/ active(b1, s).status # "Toxic"
        THEN 0
        ELSE IF eot /\ active(b0, s).status = "Toxic" THEN age[s] + 1
        ELSE age[s]]

\* a team member has a move that sets a weather
sets_weather(b) ==
    \E s \in Sides : \E i \in DOMAIN b.team[s] :
        \E m \in DOMAIN b.team[s][i].pokemon.moves :
            b.team[s][i].pokemon.moves[m].set_weather # "None"

\* the turns a run of the simple driver is followed for
SimpleTurns(b) == IF sets_weather(b) THEN MaxClimateTurns ELSE MaxTurns

\* Battle::run_turn_with_actions up to the loop over the planned actions,
\* called by a driver loop on a battle without a result; a_first is the
\* order of the two tie_break draws, claw the Quick Claw draws
RunTurn ==
    /\ driver = "simple"
    /\ pc = "idle"
    /\ turn < SimpleTurns(battle)
    /\ terminal_result(battle) = "None"
    /\ \E a_action \in PlayerActions(battle, "A"),
          b_action \in PlayerActions(battle, "B"),
          a_first \in BOOLEAN,
          claw \in [Sides -> BOOLEAN],
          b0 \in {[battle EXCEPT
                     !.team["A"][battle.active["A"]].protecting = FALSE,
                     !.team["B"][battle.active["B"]].protecting = FALSE]} :
          /\ \A s \in Sides :
                 claw[s] => has_item(active(b0, s), "Quick Claw")
          /\ \E pl \in {planned_actions(b0, a_action, b_action, claw,
                              [s \in Sides |->
                                  IF (s = "A") = a_first THEN 0 ELSE 1])} :
                 /\ battle' = [pl[2] EXCEPT !.last_turn_move_events = <<>>]
                 /\ actions' = pl[1]
          /\ planning' = [trick_room |-> b0.trick_room,
                          speed |-> [s \in Sides |-> plain_speed(b0, s)]]
    /\ pc' = "turn"
    /\ executed' = <<>>
    /\ UNCHANGED turn
    /\ UNCHANGED <<driver, battle_result, matrix, core_vars, mcts, toxic_age>>

\* the draws execute_action can take from the random generator for an action
Draws(b, action) ==
    LET m == action.move_def
        user == active(b, action.side)
        hits == action.switch_target = NoIdx /\ m.power > 0
                /\ m.category # "Status" /\ ~m.trick_room
    IN  { d \in [low : BOOLEAN, acc : BOOLEAN, crit : BOOLEAN,
                 roll : DamageRolls, sec : BOOLEAN, sta : BOOLEAN,
                 sleep : 1 .. 3] :
            /\ d.low => user.status \in {"Paralysis", "Freeze"}
            /\ ~d.acc => (action.switch_target = NoIdx /\ m.accuracy < 100)
            /\ d.crit => hits
            /\ (hits /\ m.crit_rate >= 3) => d.crit
            /\ d.roll # 100 => hits
            /\ d.sec => (hits /\ m.secondary # <<>>)
            /\ (hits /\ m.secondary # <<>> /\ m.secondary[1].chance >= 100)
                   => d.sec
            /\ d.sta => (hits /\ m.status # "None")
            /\ (hits /\ m.status # "None" /\ m.status_chance >= 100) => d.sta
            /\ d.sleep # 1 =>
                 (hits /\ (m.status = "Sleep"
                           \/ (m.secondary # <<>>
                               /\ m.secondary[1].status = "Sleep"))) }

\* the loop of run_turn_with_actions returns when a side has no battler left
ReturnEarly ==
    /\ driver = "simple"
    /\ pc = "turn"
    /\ actions # <<>>
    /\ \/ alive_count(battle, Head(actions).side) = 0
       \/ alive_count(battle, opponent(Head(actions).side)) = 0
    /\ actions' = <<>>
    /\ pc' = "idle"
    /\ turn' = turn + 1
    /\ planning' = NoPlanning
    /\ executed' = <<>>
    /\ UNCHANGED battle
    /\ UNCHANGED <<driver, battle_result, matrix, core_vars, mcts, toxic_age>>

\* a move action is dropped when its user left the slot or is fainted
is_stale(b, action) ==
    /\ action.switch_target = NoIdx
    /\ \/ b.active[action.side] # action.battler_slot
       \/ is_fainted(active(b, action.side))

SkipAction ==
    /\ driver = "simple"
    /\ pc = "turn"
    /\ actions # <<>>
    /\ alive_count(battle, "A") > 0 /\ alive_count(battle, "B") > 0
    /\ is_stale(battle, Head(actions))
    /\ actions' = Tail(actions)
    /\ UNCHANGED <<battle, pc, turn, planning, executed>>
    /\ UNCHANGED <<driver, battle_result, matrix, core_vars, mcts, toxic_age>>

\* one iteration of the loop reaching execute_action
ExecuteAction ==
    /\ driver = "simple"
    /\ pc = "turn"
    /\ actions # <<>>
    /\ alive_count(battle, "A") > 0 /\ alive_count(battle, "B") > 0
    /\ ~is_stale(battle, Head(actions))
    /\ \E act \in {Head(actions)} :
          /\ \E d \in Draws(battle, act) :
                 battle' = execute_action(battle, act, d)
          /\ executed' = Append(executed,
                 [action |-> act,
                  user |-> active(battle, act.side),
                  incoming |-> battle.team[act.side][battle'.active[act.side]],
                  switched |-> battle'.active[act.side]
                                  # battle.active[act.side],
                  target |-> active(battle, opponent(act.side)),
                  target_after |->
                      battle'.team[opponent(act.side)]
                                  [battle.active[opponent(act.side)]],
                  hit |-> /\ Len(battle'.last_turn_move_events)
                                > Len(battle.last_turn_move_events)
                          /\ battle'.last_turn_move_events[
                                 Len(battle'.last_turn_move_events)].outcome
                                = "Hit"])
    /\ actions' = Tail(actions)
    /\ toxic_age' = legacy_age(battle, battle', toxic_age, FALSE)
    /\ UNCHANGED <<pc, turn, planning>>
    /\ UNCHANGED <<driver, battle_result, matrix, core_vars, mcts>>

\* the end of run_turn_with_actions
EndOfTurn ==
    /\ driver = "simple"
    /\ pc = "turn"
    /\ actions = <<>>
    /\ battle' = end_of_turn(battle)
    /\ pc' = "idle"
    /\ turn' = turn + 1
    /\ planning' = NoPlanning
    /\ executed' = <<>>
    /\ toxic_age' = legacy_age(battle, battle', toxic_age, TRUE)
    /\ UNCHANGED actions
    /\ UNCHANGED <<driver, battle_result, matrix, core_vars, mcts>>


\* the returns of simulate_battle_with_options: the terminal result it
\* finds at the top of an iteration of its loop, and Tie after the last
\* iteration; the loop of the runs followed here has SimpleTurns iterations
\* where the source has 500
SimulateReturn ==
    /\ driver = "simple"
    /\ pc = "idle"
    /\ battle_result = "None"
    /\ \/ /\ turn < SimpleTurns(battle)
          /\ terminal_result(battle) # "None"
          /\ battle_result' = terminal_result(battle)
       \/ /\ turn = SimpleTurns(battle)
          /\ battle_result' = "Tie"
    /\ UNCHANGED <<driver, matrix, legacy_vars, core_vars, mcts, toxic_age>>
\* --------------------------------------------------- core driver: the data
\* side_idx of the core driver: 0 is side A, 1 is side B
CoreSides == {0, 1}

other(side_idx) == 1 - side_idx

\* indices of Pokemon::stat_stages
STAGE_ATK == 0
STAGE_DEF == 1
STAGE_SPA == 2
STAGE_SPD == 3
STAGE_SPE == 4

\* normalize_move_name / normalize_id / normalize_item_name: lower case,
\* ASCII alphanumerics only, on the names that occur in the rosters
normalize_id(name) ==
    CASE name = "Quick Attack" -> "quickattack"
      [] name = "Choice Band" -> "choiceband"
      [] name = "Poison Fang" -> "poisonfang"
      [] name = "Tackle" -> "tackle"
      [] name = "Seismic Toss" -> "seismictoss"
      [] name = "Overheat" -> "overheat"
      [] name = "Thunder Wave" -> "thunderwave"
      [] name = "Stealth Rock" -> "stealthrock"
      [] name = "Sticky Web" -> "stickyweb"
      [] name = "Trick Room" -> "trickroom"
      [] name = "U-turn" -> "uturn"
      [] name = "Drain Punch" -> "drainpunch"
      [] name = "Focus Sash" -> "focussash"
      [] name = "Substitute" -> "substitute"
      [] name = "Hyper Voice" -> "hypervoice"
      [] name = "Dragon Tail" -> "dragontail"
      [] name = "Spikes" -> "spikes"
      [] name = "Magic Coat" -> "magiccoat"
      [] name = "Air Slash" -> "airslash"
      [] name = "Ceaseless Edge" -> "ceaselessedge"
      [] name = "Healing Wish" -> "healingwish"
      [] name = "Razor Wind" -> "razorwind"
      [] name = "Power Herb" -> "powerherb"
      [] name = "Leftovers" -> "leftovers"
      [] name = "Black Sludge" -> "blacksludge"
      [] OTHER -> name

\* a SecondaryEffect of the move table; boosts is a sequence of
\* <<stage index, delta>> in the order of the BTreeMap
NoEffect ==
    [chance |-> 0, status |-> "None", toxic |-> FALSE, boosts |-> <<>>,
     side_condition |-> "None"]

CoreMoveDefaults ==
    [name |-> "", move_type |-> "normal", category |-> "Status", power |-> 0,
     accuracy |-> 100, priority |-> 0, secondaries |-> <<>>,
     self_effect |-> <<>>, recoil |-> <<>>, drain |-> <<>>,
     contact |-> FALSE, sound |-> FALSE, bypasssub |-> FALSE,
     protect |-> TRUE, charge |-> FALSE, target |-> "normal"]

\* the generated move table MOVES, for the moves of the rosters
MOVES ==
    [tackle |-> [CoreMoveDefaults EXCEPT !.name = "Tackle",
                    !.category = "Physical", !.power = 40, !.contact = TRUE],
     quickattack |-> [CoreMoveDefaults EXCEPT !.name = "Quick Attack",
                    !.category = "Physical", !.power = 40, !.priority = 1,
                    !.contact = TRUE],
     seismictoss |-> [CoreMoveDefaults EXCEPT !.name = "Seismic Toss",
                    !.move_type = "fighting", !.category = "Physical",
                    !.contact = TRUE],
     overheat |-> [CoreMoveDefaults EXCEPT !.name = "Overheat",
                    !.move_type = "fire", !.category = "Special",
                    !.power = 130, !.accuracy = 90,
                    !.self_effect = <<[NoEffect EXCEPT !.chance = 100,
                                         !.boosts = <<<<STAGE_SPA, 0 - 2>>>>]>>],
     poisonfang |-> [CoreMoveDefaults EXCEPT !.name = "Poison Fang",
                    !.move_type = "poison", !.category = "Physical",
                    !.power = 50, !.contact = TRUE,
                    !.secondaries = <<[NoEffect EXCEPT !.chance = 50,
                                         !.status = "Poison",
                                         !.toxic = TRUE]>>],
     thunderwave |-> [CoreMoveDefaults EXCEPT !.name = "Thunder Wave",
                    !.move_type = "electric", !.accuracy = 90],
     stealthrock |-> [CoreMoveDefaults EXCEPT !.name = "Stealth Rock",
                    !.move_type = "rock", !.target = "foeSide"],
     stickyweb |-> [CoreMoveDefaults EXCEPT !.name = "Sticky Web",
                    !.move_type = "bug", !.target = "foeSide"],
     trickroom |-> [CoreMoveDefaults EXCEPT !.name = "Trick Room",
                    !.move_type = "psychic", !.priority = 0 - 7,
                    !.target = "all"],
     drainpunch |-> [CoreMoveDefaults EXCEPT !.name = "Drain Punch",
                    !.move_type = "fighting", !.category = "Physical",
                    !.power = 75, !.drain = <<<<1, 2>>>>, !.contact = TRUE],
     substitute |-> [CoreMoveDefaults EXCEPT !.name = "Substitute",
                    !.target = "self"],
     hypervoice |-> [CoreMoveDefaults EXCEPT !.name = "Hyper Voice",
                    !.category = "Special", !.power = 90, !.sound = TRUE,
                    !.target = "allAdjacentFoes"],
     dragontail |-> [CoreMoveDefaults EXCEPT !.name = "Dragon Tail",
                    !.move_type = "dragon", !.category = "Physical",
                    !.power = 60, !.accuracy = 90, !.priority = 0 - 6,
                    !.contact = TRUE],
     spikes |-> [CoreMoveDefaults EXCEPT !.name = "Spikes",
                    !.move_type = "ground", !.target = "foeSide"],
     ceaselessedge |-> [CoreMoveDefaults EXCEPT !.name = "Ceaseless Edge",
                    !.move_type = "dark", !.category = "Physical",
                    !.power = 65, !.accuracy = 90, !.contact = TRUE,
                    !.secondaries = <<[NoEffect EXCEPT !.chance = 100,
                                         !.side_condition = "spikes"]>>],
     magiccoat |-> [CoreMoveDefaults EXCEPT !.name = "Magic Coat",
                    !.move_type = "psychic", !.priority = 4,
                    !.protect = FALSE, !.target = "self"],
     airslash |-> [CoreMoveDefaults EXCEPT !.name = "Air Slash",
                    !.move_type = "flying", !.category = "Special",
                    !.power = 75, !.accuracy = 95,
                    !.secondaries = <<[NoEffect EXCEPT !.chance = 30,
                                         !.status = "Flinch"]>>],
     razorwind |-> [CoreMoveDefaults EXCEPT !.name = "Razor Wind",
                    !.category = "Special", !.power = 80, !.charge = TRUE,
                    !.target = "allAdjacentFoes"],
     healingwish |-> [CoreMoveDefaults EXCEPT !.name = "Healing Wish",
                    !.move_type = "psychic", !.target = "self"],
     uturn |-> [CoreMoveDefaults EXCEPT !.name = "U-turn",
                    !.move_type = "bug", !.category = "Physical",
                    !.power = 70, !.contact = TRUE]]

\* get_move: lookup by normalized identifier; <<>> for an unknown name
get_move(name) ==
    IF normalize_id(name) \in DOMAIN MOVES
    THEN <<MOVES[normalize_id(name)]>> ELSE <<>>

\* the arguments of Pokemon::new with the stats and types it derives from
\* the species table: what a Pokemon keeps unchanged through a battle
Roster ==
    [Blaze  |-> [level |-> 50, types |-> <<"fire", "fire">>,
                 stats |-> [hp |-> 150, atk |-> 60, def |-> 70, spa |-> 90,
                            spd |-> 70, spe |-> 100],
                 moves |-> Vec(<<"overheat">>),
                 ability |-> "Run Away", item |-> "None"],
     Fang   |-> [level |-> 50, types |-> <<"normal", "normal">>,
                 stats |-> [hp |-> 300, atk |-> 70, def |-> 70, spa |-> 50,
                            spd |-> 70, spe |-> 60],
                 moves |-> Vec(<<"poisonfang", "thunderwave">>),
                 ability |-> "Run Away", item |-> "None"],
     Bander |-> [level |-> 50, types |-> <<"normal", "normal">>,
                 stats |-> [hp |-> 120, atk |-> 80, def |-> 70, spa |-> 50,
                            spd |-> 70, spe |-> 70],
                 moves |-> Vec(<<"Quick Attack", "tackle">>),
                 ability |-> "Run Away", item |-> "Choice Band"],
     Husk   |-> [level |-> 50, types |-> <<"bug", "ghost">>,
                 stats |-> [hp |-> 1, atk |-> 90, def |-> 45, spa |-> 30,
                            spd |-> 30, spe |-> 40],
                 moves |-> Vec(<<"uturn">>),
                 ability |-> "Run Away", item |-> "None"],
     Rocker |-> [level |-> 50, types |-> <<"rock", "rock">>,
                 stats |-> [hp |-> 110, atk |-> 70, def |-> 90, spa |-> 50,
                            spd |-> 70, spe |-> 50],
                 moves |-> Vec(<<"stealthrock", "trickroom">>),
                 ability |-> "Run Away", item |-> "None"],
     Menace |-> [level |-> 50, types |-> <<"normal", "normal">>,
                 stats |-> [hp |-> 110, atk |-> 80, def |-> 70, spa |-> 50,
                            spd |-> 70, spe |-> 70],
                 moves |-> Vec(<<"seismictoss", "stickyweb">>),
                 ability |-> "Intimidate", item |-> "None"],
     Keeper |-> [level |-> 50, types |-> <<"fighting", "fighting">>,
                 stats |-> [hp |-> 40, atk |-> 120, def |-> 50, spa |-> 50,
                            spd |-> 50, spe |-> 100],
                 moves |-> Vec(<<"drainpunch">>),
                 ability |-> "Run Away", item |-> "Focus Sash"],
     Bulwark |-> [level |-> 50, types |-> <<"rock", "rock">>,
                 stats |-> [hp |-> 40, atk |-> 50, def |-> 90, spa |-> 50,
                            spd |-> 50, spe |-> 100],
                 moves |-> Vec(<<"tackle">>),
                 ability |-> "Sturdy", item |-> "Focus Sash"],
     Decoy  |-> [level |-> 50, types |-> <<"normal", "normal">>,
                 stats |-> [hp |-> 80, atk |-> 50, def |-> 50, spa |-> 50,
                            spd |-> 50, spe |-> 50],
                 moves |-> Vec(<<"substitute", "tackle">>),
                 ability |-> "Run Away", item |-> "None"],
     Howler |-> [level |-> 50, types |-> <<"rock", "rock">>,
                 stats |-> [hp |-> 100, atk |-> 100, def |-> 50, spa |-> 60,
                            spd |-> 50, spe |-> 100],
                 moves |-> Vec(<<"hypervoice", "tackle">>),
                 ability |-> "Run Away", item |-> "None"],
     Dragger |-> [level |-> 50, types |-> <<"dragon", "dragon">>,
                 stats |-> [hp |-> 120, atk |-> 80, def |-> 70, spa |-> 50,
                            spd |-> 70, spe |-> 100],
                 moves |-> Vec(<<"dragontail", "tackle">>),
                 ability |-> "Run Away", item |-> "None"],
     Pebble |-> [level |-> 50, types |-> <<"rock", "rock">>,
                 stats |-> [hp |-> 34, atk |-> 70, def |-> 90, spa |-> 50,
                            spd |-> 70, spe |-> 50],
                 moves |-> Vec(<<"stealthrock", "trickroom">>),
                 ability |-> "Run Away", item |-> "None"],
     Edger  |-> [level |-> 50, types |-> <<"dark", "dark">>,
                 stats |-> [hp |-> 120, atk |-> 80, def |-> 70, spa |-> 50,
                            spd |-> 70, spe |-> 90],
                 moves |-> Vec(<<"ceaselessedge", "spikes">>),
                 ability |-> "Run Away", item |-> "None"],
     Coater |-> [level |-> 50, types |-> <<"flying", "flying">>,
                 stats |-> [hp |-> 120, atk |-> 60, def |-> 70, spa |-> 80,
                            spd |-> 70, spe |-> 100],
                 moves |-> Vec(<<"magiccoat", "airslash">>),
                 ability |-> "Run Away", item |-> "None"],
     Wisher |-> [level |-> 50, types |-> <<"psychic", "psychic">>,
                 stats |-> [hp |-> 100, atk |-> 60, def |-> 70, spa |-> 50,
                            spd |-> 70, spe |-> 200],
                 moves |-> Vec(<<"healingwish", "tackle">>),
                 ability |-> "Run Away", item |-> "None"],
     Shard  |-> [level |-> 50, types |-> <<"rock", "rock">>,
                 stats |-> [hp |-> 60, atk |-> 70, def |-> 90, spa |-> 50,
                            spd |-> 70, spe |-> 50],
                 moves |-> Vec(<<"stealthrock", "thunderwave">>),
                 ability |-> "Run Away", item |-> "None"],
     Ailing |-> [level |-> 50, types |-> <<"normal", "normal">>,
                 stats |-> [hp |-> 32, atk |-> 60, def |-> 40, spa |-> 50,
                            spd |-> 50, spe |-> 50],
                 moves |-> Vec(<<"tackle">>),
                 ability |-> "Run Away", item |-> "None"],
     Mender |-> [level |-> 50, types |-> <<"normal", "normal">>,
                 stats |-> [hp |-> 32, atk |-> 60, def |-> 40, spa |-> 50,
                            spd |-> 50, spe |-> 50],
                 moves |-> Vec(<<"tackle">>),
                 ability |-> "Run Away", item |-> "Leftovers"],
     Charger |-> [level |-> 50, types |-> <<"normal", "normal">>,
                 stats |-> [hp |-> 120, atk |-> 70, def |-> 70, spa |-> 80,
                            spd |-> 70, spe |-> 90],
                 moves |-> Vec(<<"razorwind", "seismictoss">>),
                 ability |-> "Run Away", item |-> "None"],
     Drizzler |-> [level |-> 50, types |-> <<"normal", "normal">>,
                 stats |-> [hp |-> 100, atk |-> 80, def |-> 70, spa |-> 50,
                            spd |-> 70, spe |-> 90],
                 moves |-> Vec(<<"seismictoss">>),
                 ability |-> "Drizzle", item |-> "None"],
     Scorcher |-> [level |-> 50, types |-> <<"normal", "normal">>,
                 stats |-> [hp |-> 100, atk |-> 80, def |-> 70, spa |-> 50,
                            spd |-> 70, spe |-> 80],
                 moves |-> Vec(<<"seismictoss">>),
                 ability |-> "Drought", item |-> "None"],
     Surger |-> [level |-> 50, types |-> <<"normal", "normal">>,
                 stats |-> [hp |-> 100, atk |-> 60, def |-> 70, spa |-> 50,
                            spd |-> 70, spe |-> 60],
                 moves |-> Vec(<<"magiccoat">>),
                 ability |-> "Electric Surge", item |-> "None"],
     Mister |-> [level |-> 50, types |-> <<"normal", "normal">>,
                 stats |-> [hp |-> 50, atk |-> 60, def |-> 70, spa |-> 50,
                            spd |-> 70, spe |-> 50],
                 moves |-> Vec(<<"stickyweb">>),
                 ability |-> "Misty Surge", item |-> "None"],
     Brawn  |-> [level |-> 50, types |-> <<"normal", "normal">>,
                 stats |-> [hp |-> 200, atk |-> 80, def |-> 50, spa |-> 50,
                            spd |-> 50, spe |-> 60],
                 moves |-> Vec(<<"seismictoss">>),
                 ability |-> "Run Away", item |-> "None"]]

\* ------------------------------------------------ core driver: the helpers
\* Pokemon::new: the fields it stores from its arguments and the species
\* table, which a battle leaves unchanged, and the fields a battle changes;
\* the fields held constant by the moves, items and abilities of the rosters
\* (charge_active, endure_active, semi_invulnerable, confusion, encore) are
\* left out
Pokemon_new(species) ==
    The({[species |-> species, level |-> r.level, types |-> r.types,
          stats |-> r.stats, moves |-> r.moves, ability |-> r.ability,
          item |-> r.item, current_hp |-> r.stats.hp,
          status |-> "None", sleep_turns |-> 0, toxic_counter |-> 0,
          stat_stages |-> [i \in 0 .. 5 |-> 0],
          accuracy_stage |-> 0, evasion_stage |-> 0, flinched |-> FALSE,
          trapped |-> FALSE, taunt_turns |-> 0, item_consumed |-> FALSE,
          substitute_hp |-> 0, protect_active |-> FALSE,
          magic_coat_active |-> FALSE, charging_move |-> "None",
          last_move |-> "None", choice_lock_move |-> "None"] :
            r \in {Roster[species]}})

SideConditions_default ==
    [stealth_rock |-> FALSE, spikes |-> 0, toxic_spikes |-> 0,
     sticky_web |-> FALSE, healing_wish_pending |-> FALSE]

\* BattleState::new_with_bench on the teams split as run_team_battle and
\* BattleEngine::new split them
new_with_bench(team_a, team_b) ==
    [pokemon |-> [s \in CoreSides |->
                    Pokemon_new(Head(IF s = 0 THEN team_a ELSE team_b))],
     bench |-> [s \in CoreSides |->
                  LET t == Tail(IF s = 0 THEN team_a ELSE team_b)
                  IN  [i \in 0 .. Len(t) - 1 |-> Pokemon_new(t[i + 1])]],
     turn |-> 0, trick_room_turns |-> 0,
     weather |-> "None", weather_turns |-> 0,
     field |-> "None", field_turns |-> 0,
     side |-> [s \in CoreSides |-> SideConditions_default]]

\* Pokemon::take_damage: u16 saturating_sub
take_damage(pokemon, damage) ==
    [pokemon EXCEPT !.current_hp = Max(@ - damage, 0)]

Pokemon_is_fainted(pokemon) == pokemon.current_hp = 0

Pokemon_has_ability(pokemon, ability) ==
    pokemon.ability = ability

\* items::consumable::has_item: the normalized item name
core_has_item(pokemon, item) ==
    pokemon.item # "None"
    /\ normalize_id(pokemon.item) = item

\* items::consumable::can_consume_item
can_consume_item(pokemon) ==
    pokemon.item # "None" /\ ~pokemon.item_consumed

\* items::consumable::consume_item: <<consumed, pokemon>>
consume_item(pokemon, item) ==
    IF can_consume_item(pokemon) /\ core_has_item(pokemon, item)
    THEN <<TRUE, [pokemon EXCEPT !.item_consumed = TRUE]>>
    ELSE <<FALSE, pokemon>>

\* a focus sash that saves its holder and stays unconsumed
prevent_ko_unconsumed(defender, damage) ==
    IF /\ defender.current_hp > 1
       /\ damage >= defender.current_hp
       /\ defender.current_hp = defender.stats.hp
       /\ \/ Pokemon_has_ability(defender, "Sturdy")
          \/ core_has_item(defender, "focussash")
    THEN <<defender.current_hp - 1, defender>>
    ELSE <<damage, defender>>
\* faint_handler::prevent_ko_if_applicable: <<final damage, defender>>; the
\* branch of endure_active, which no move of the rosters sets, is left out
prevent_ko_if_applicable(defender, damage) ==
    LET sash(saved) ==
            IF saved[1] THEN <<defender.current_hp - 1, saved[2]>>
            ELSE <<damage, defender>>
    IN  IF defender.current_hp = 0 \/ defender.current_hp = 1
        THEN <<damage, defender>>
        ELSE IF damage < defender.current_hp THEN <<damage, defender>>
        ELSE IF /\ Pokemon_has_ability(defender, "Sturdy")
                /\ defender.current_hp = defender.stats.hp
        THEN <<defender.current_hp - 1, defender>>
        ELSE IF /\ defender.current_hp = defender.stats.hp
                /\ can_consume_item(defender)
                /\ core_has_item(defender, "focussash")
        THEN sash(consume_item(defender, "focussash"))
        ELSE <<damage, defender>>

\* moves::attacking::apply_drain
apply_drain(attacker, damage_dealt, drain) ==
    IF damage_dealt = 0 \/ drain[2] = 0 THEN attacker
    ELSE [attacker EXCEPT !.current_hp =
            Min(@ + Max((damage_dealt * drain[1] + drain[2] \div 2)
                            \div drain[2], 1),
                attacker.stats.hp)]

is_choice_item_id(item_id) ==
    item_id \in {"choiceband", "choicespecs", "choicescarf"}

has_type(pokemon, t) ==
    pokemon.types[1] = t \/ pokemon.types[2] = t

\* sim::battle::is_grounded
core_is_grounded(pokemon) == ~has_type(pokemon, "flying")

\* the type chart lookup of a move type against the two types of a target;
\* a species of one type carries it in both slots
effectiveness_dual(move_type, t0, t1) ==
    IF t0 = t1 THEN single_type_effectiveness(move_type, t0)
    ELSE RMul(single_type_effectiveness(move_type, t0),
              single_type_effectiveness(move_type, t1))

\* sim::battle::stage_multiplier
stage_multiplier(stage) ==
    IF stage >= 0 THEN Rat(2 + stage, 2) ELSE Rat(2, 2 - stage)

\* sim::battle::apply_stage_multiplier
apply_stage_multiplier(base, stage) ==
    Max(RFloor(RMul(RInt(base), stage_multiplier(stage))), 1)

\* i8::saturating_add
saturating_add_i8(a, b) == Min(Max(a + b, 0 - 128), 127)

\* the clamp(-6, 6) of the stage setters
clamp_i8(v) == Min(Max(v, 0 - 6), 6)

\* sim::battle::apply_stage_change: the Pokemon after the change
apply_stage_change(pokemon, stat, delta) ==
    [pokemon EXCEPT !.stat_stages[stat] =
                        clamp_i8(saturating_add_i8(@, delta))]

\* secondary::apply_stat_change, for the five battle stats
apply_stat_change(pokemon, stat, delta) ==
    [pokemon EXCEPT !.stat_stages[stat] =
                        clamp_i8(saturating_add_i8(@, delta))]

\* status_abilities::apply_intimidate through its own apply_stage_change
apply_intimidate(target) ==
    [target EXCEPT !.stat_stages[STAGE_ATK] =
                       clamp_i8(saturating_add_i8(@, 0 - 1))]

\* Pokemon::is_status_immune
is_status_immune(pokemon, status) ==
    \/ status = "Burn" /\ has_type(pokemon, "fire")
    \/ status = "Paralysis" /\ has_type(pokemon, "electric")
    \/ status = "Poison" /\ (has_type(pokemon, "poison")
                             \/ has_type(pokemon, "steel"))
    \/ status = "Freeze" /\ has_type(pokemon, "ice")
    \/ status = "Poison" /\ Pokemon_has_ability(pokemon, "Immunity")
    \/ status = "Paralysis" /\ Pokemon_has_ability(pokemon, "Limber")

\* Pokemon::apply_status_internal; sleep is the gen_range(2..=4) draw
apply_status_internal(pokemon, status, toxic, sleep) ==
    IF status = "Flinch" THEN [pokemon EXCEPT !.flinched = TRUE]
    ELSE IF pokemon.status # "None" THEN pokemon
    ELSE IF is_status_immune(pokemon, status) THEN pokemon
    ELSE [pokemon EXCEPT
            !.sleep_turns = IF status = "Sleep" THEN sleep ELSE @,
            !.toxic_counter = IF status = "Poison"
                              THEN (IF toxic THEN 1 ELSE 0) ELSE @,
            !.status = status]

\* sim::battle::apply_status_with_field with no field in effect
apply_status_with_field(pokemon, status, toxic, sleep) ==
    apply_status_internal(pokemon, status, toxic, sleep)

\* battle_items::speed_modifier
speed_modifier(pokemon) ==
    IF core_has_item(pokemon, "choicescarf") THEN <<3, 2>> ELSE <<1, 1>>

\* sim::battle::effective_speed without weather: the ability multipliers of
\* speed_multiplier and weather_speed_multiplier are 1.0 for the rosters
effective_speed(pokemon) ==
    LET spe0 == apply_stage_multiplier(pokemon.stats.spe,
                                       pokemon.stat_stages[STAGE_SPE])
        spe1 == IF pokemon.status = "Paralysis"
                   /\ ~Pokemon_has_ability(pokemon, "Quick Feet")
                THEN RFloor(RMul(RInt(spe0), <<1, 2>>)) ELSE spe0
    IN  RFloor(RMul(RInt(spe1), speed_modifier(pokemon)))

\* a core Action is [kind |-> "Move" | "Switch", idx |-> n]
\* sim::battle::action_priority; get_move_priority adds nothing outside
\* grassy terrain
action_priority(action, pokemon) ==
    IF action.kind = "Switch" THEN 6
    ELSE IF action.idx \in DOMAIN pokemon.moves
            /\ get_move(pokemon.moves[action.idx]) # <<>>
    THEN get_move(pokemon.moves[action.idx])[1].priority
    ELSE 0

\* sim::battle::determine_order: TRUE when side A acts first; coin is the
\* gen_bool(0.5) draw
determine_order(pokemon_a, action_a, pokemon_b, action_b, trick_room_active, coin) ==
    LET ordered(priority_a, priority_b, spe_a, spe_b) ==
            IF priority_a # priority_b THEN priority_a > priority_b
            ELSE IF spe_a # spe_b
            THEN (IF trick_room_active THEN spe_a < spe_b ELSE spe_a > spe_b)
            ELSE coin
    IN  ordered(action_priority(action_a, pokemon_a),
                action_priority(action_b, pokemon_b),
                effective_speed(pokemon_a), effective_speed(pokemon_b))

\* damage::apply_modifier with the modifier as a 4096-based fixed point
apply_modifier(value, modifier) ==
    IF modifier[1] <= 0 THEN 0
    ELSE (value * RFloor(RMul(modifier, RInt(4096))) + 2048 - 1) \div 4096

\* damage::apply_type_effectiveness on the steps 4, 2, 1, 1/2, 1/4
apply_type_effectiveness(value, eff) ==
    CASE eff[1] = 0 -> 0
      [] eff = <<4, 1>> -> value * 4
      [] eff = <<2, 1>> -> value * 2
      [] eff = <<1, 2>> -> value \div 2
      [] eff = <<1, 4>> -> value \div 4
      [] OTHER -> value

\* damage::compute_base_damage
compute_base_damage(level, attack, defense, power) ==
    ((((2 * level) \div 5 + 2) * power * attack) \div Max(defense, 1)) \div 50

\* damage::calculate_damage_with_modifiers with the weather, burn and final
\* modifiers at 1.0, as they are for the rosters; percent is the
\* gen_range(85..=100) draw
calculate_damage_with_modifiers(level, attack, defense, power, eff, stab, percent, crit) ==
    LET d0 == compute_base_damage(level, attack, defense, power) + 2
        d1 == apply_modifier(d0, <<1, 1>>)
        d2 == IF crit THEN RFloor(RMul(RInt(d1), <<3, 2>>)) ELSE d1
        d3 == (d2 * percent) \div 100
        d4 == IF stab THEN apply_modifier(d3, <<3, 2>>) ELSE d3
        d5 == apply_type_effectiveness(d4, eff)
        d6 == apply_modifier(apply_modifier(d5, <<1, 1>>), <<1, 1>>)
    IN  IF eff[1] = 0 THEN 0
        ELSE IF d6 = 0 THEN 1
        ELSE d6 % 65536

\* battle_items::attack_stat_modifier
attack_stat_modifier(pokemon, category) ==
    IF core_has_item(pokemon, "choiceband") /\ category = "Physical"
    THEN <<3, 2>>
    ELSE IF core_has_item(pokemon, "choicespecs") /\ category = "Special"
    THEN <<3, 2>>
    ELSE <<1, 1>>

\* sim::battle::fixed_damage: <<>> for None
fixed_damage(normalized_move, attacker) ==
    IF normalized_move \in {"seismictoss", "nightshade"}
    THEN <<attacker.level>>
    ELSE <<>>

\* the damage of one hit in the loop of execute_move_impl
hit_damage(attacker, defender, move_data, normalized, is_crit, percent) ==
    LET phys == move_data.category = "Physical"
        ar == attacker
        dr == defender
        astage0 == attacker.stat_stages[IF phys THEN STAGE_ATK
                                        ELSE STAGE_SPA]
        astage == IF is_crit THEN Max(astage0, 0) ELSE astage0
        astat == apply_stage_multiplier(
                     IF phys THEN ar.stats.atk ELSE ar.stats.spa, astage)
        attacker_stat ==
            Max(RFloor(RMul(RInt(astat),
                            attack_stat_modifier(attacker,
                                                 move_data.category))), 1)
        dstage0 == defender.stat_stages[IF phys THEN STAGE_DEF
                                        ELSE STAGE_SPD]
        dstage == IF is_crit THEN Min(dstage0, 0) ELSE dstage0
        defender_stat ==
            Max(apply_stage_multiplier(
                    IF phys THEN dr.stats.def ELSE dr.stats.spd, dstage), 1)
        eff == effectiveness_dual(move_data.move_type, dr.types[1],
                                  dr.types[2])
        stab == has_type(attacker, move_data.move_type)
        fixed == fixed_damage(normalized, attacker)
    IN  IF fixed # <<>> THEN fixed[1]
        ELSE calculate_damage_with_modifiers(
                 ar.level, attacker_stat, defender_stat, move_data.power,
                 eff, stab, percent, is_crit)

\* secondary::apply_secondary_effect_with_update on a target Pokemon; roll
\* is the outcome roll < chance
RECURSIVE apply_boost_list(_, _)
apply_boost_list(pokemon, boosts) ==
    IF boosts = <<>> THEN pokemon
    ELSE apply_boost_list(
             apply_stat_change(pokemon, Head(boosts)[1], Head(boosts)[2]),
             Tail(boosts))

apply_secondary_effect(target, effect, roll, sleep) ==
    IF effect.chance = 0 \/ ~roll \/ Pokemon_is_fainted(target) THEN target
    ELSE LET t1 == IF effect.status # "None"
                   THEN apply_status_with_field(target, effect.status,
                                                effect.toxic, sleep)
                   ELSE target
         IN  apply_boost_list(t1, effect.boosts)

\* a switch that leaves the toxic counter as it is
reset_on_switch_keep_toxic(pokemon) ==
    [pokemon EXCEPT !.stat_stages = [i \in 0 .. 5 |-> 0],
                    !.accuracy_stage = 0, !.evasion_stage = 0,
                    !.flinched = FALSE, !.trapped = FALSE,
                    !.protect_active = FALSE,
                    !.taunt_turns = 0, !.substitute_hp = 0,
                    !.charging_move = "None",
                    !.choice_lock_move = "None"]
\* sim::battle::reset_on_switch
reset_on_switch(pokemon) ==
    [pokemon EXCEPT !.stat_stages = [i \in 0 .. 5 |-> 0],
                    !.accuracy_stage = 0, !.evasion_stage = 0,
                    !.flinched = FALSE, !.trapped = FALSE,
                    !.protect_active = FALSE,
                    !.taunt_turns = 0, !.substitute_hp = 0,
                    !.charging_move = "None",
                    !.choice_lock_move = "None",
                    !.toxic_counter = IF pokemon.status = "Poison" /\ @ > 0
                                      THEN 1 ELSE @]

\* sim::battle::apply_entry_hazards: <<pokemon, side conditions>>
apply_entry_hazards(pokemon, side) ==
    LET hp == pokemon.stats.hp
        eff == effectiveness_dual("rock", pokemon.types[1],
                                  pokemon.types[2])
        ratio == IF side.spikes = 1 THEN <<1, 8>>
                 ELSE IF side.spikes = 2 THEN <<1, 6>> ELSE <<1, 4>>
        absorb(p) == side.toxic_spikes > 0 /\ core_is_grounded(p)
                     /\ has_type(p, "poison")
        web(p3) ==
            IF side.sticky_web /\ core_is_grounded(p3)
            THEN apply_stage_change(p3, STAGE_SPE, 0 - 1) ELSE p3
        toxic(p2) ==
            <<The({web(p3) : p3 \in
                     {IF side.toxic_spikes > 0 /\ core_is_grounded(p2)
                         /\ ~absorb(p2)
                      THEN apply_status_with_field(p2, "Poison",
                                                   side.toxic_spikes >= 2, 2)
                      ELSE p2}}),
              IF absorb(p2) THEN [side EXCEPT !.toxic_spikes = 0] ELSE side>>
        spikes(p1) ==
            The({toxic(p2) : p2 \in
                    {IF side.spikes > 0 /\ core_is_grounded(p1)
                     THEN take_damage(p1,
                              Max(RFloor(RMul(RInt(hp), ratio)), 1))
                     ELSE p1}})
    IN  The({spikes(p1) : p1 \in
                {IF side.stealth_rock /\ eff[1] > 0
                 THEN take_damage(pokemon,
                          Max(RFloor(RMul(RInt(hp), RDiv(eff, RInt(8)))), 1))
                 ELSE pokemon}})

\* sim::battle::apply_field_ability
apply_field_ability(st, ability) ==
    CASE ability = "Grassy Surge" ->
            [st EXCEPT !.field = "Grassy", !.field_turns = 5]
      [] ability = "Electric Surge" ->
            [st EXCEPT !.field = "Electric", !.field_turns = 5]
      [] ability = "Psychic Surge" ->
            [st EXCEPT !.field = "Psychic", !.field_turns = 5]
      [] ability = "Misty Surge" ->
            [st EXCEPT !.field = "Misty", !.field_turns = 5]
      [] OTHER -> st

\* a weather ability that starts a clock of 4 turns
apply_weather_ability_short(st, ability) ==
    CASE ability = "Drought" ->
            [st EXCEPT !.weather = "Sun", !.weather_turns = 4]
      [] ability = "Drizzle" ->
            [st EXCEPT !.weather = "Rain", !.weather_turns = 4]
      [] OTHER -> st
\* sim::battle::apply_weather_ability
apply_weather_ability(st, ability) ==
    CASE ability = "Drought" ->
            [st EXCEPT !.weather = "Sun", !.weather_turns = 5]
      [] ability = "Drizzle" ->
            [st EXCEPT !.weather = "Rain", !.weather_turns = 5]
      [] ability = "Sand Stream" ->
            [st EXCEPT !.weather = "Sand", !.weather_turns = 5]
      [] ability = "Snow Warning" ->
            [st EXCEPT !.weather = "Hail", !.weather_turns = 5]
      [] OTHER -> st

\* sim::battle::apply_on_entry_ability_for_side with
\* apply_on_entry_ability_effects: the field and weather abilities, then
\* Intimidate, the other entry ability of the rosters
apply_on_entry_ability_for_side(st, side_idx) ==
    The({IF Pokemon_has_ability(s1.pokemon[side_idx], "Intimidate")
            /\ ~Pokemon_is_fainted(s1.pokemon[other(side_idx)])
         THEN [s1 EXCEPT !.pokemon[other(side_idx)] = apply_intimidate(@)]
         ELSE s1 :
            s1 \in {apply_weather_ability(
                        apply_field_ability(st, st.pokemon[side_idx].ability),
                        st.pokemon[side_idx].ability)}})

\* sim::battle::apply_on_entry_abilities
apply_on_entry_abilities(st) ==
    apply_on_entry_ability_for_side(apply_on_entry_ability_for_side(st, 0), 1)

\* a switch that nothing blocks
can_switch_always(pokemon, kind) == TRUE

\* switching::can_switch
can_switch(pokemon, kind) ==
    IF Pokemon_is_fainted(pokemon) THEN kind = "Forced"
    ELSE ~(pokemon.trapped /\ kind # "Forced")

\* Pokemon::clear_status
clear_status(pokemon) ==
    [pokemon EXCEPT !.status = "None", !.sleep_turns = 0,
                    !.toxic_counter = 0]

\* a pending healing wish that heals the incoming Pokemon and stays pending
keep_healing_wish(hz) ==
    IF hz[2].healing_wish_pending /\ ~Pokemon_is_fainted(hz[1])
    THEN <<clear_status([hz[1] EXCEPT !.current_hp =
                                         hz[1].stats.hp]),
           hz[2]>>
    ELSE hz

\* the healing wish step of perform_switch, on the <<pokemon, side
\* conditions>> apply_entry_hazards left
resolve_healing_wish(hz) ==
    IF hz[2].healing_wish_pending /\ ~Pokemon_is_fainted(hz[1])
    THEN <<clear_status([hz[1] EXCEPT !.current_hp =
                                         hz[1].stats.hp]),
           [hz[2] EXCEPT !.healing_wish_pending = FALSE]>>
    ELSE hz

\* sim::battle::perform_switch: <<state, switched>>
perform_switch(st, side_idx, bench_idx, kind) ==
    LET entered(hz) ==
            <<apply_on_entry_ability_for_side(
                [st EXCEPT !.pokemon[side_idx] = hz[1],
                           !.bench[side_idx][bench_idx] =
                               reset_on_switch(st.pokemon[side_idx]),
                           !.side[side_idx] = hz[2]],
                side_idx), TRUE>>
    IN  IF ~can_switch(st.pokemon[side_idx], kind) THEN <<st, FALSE>>
        ELSE IF bench_idx \notin DOMAIN st.bench[side_idx]
        THEN <<st, FALSE>>
        ELSE IF Pokemon_is_fainted(st.bench[side_idx][bench_idx])
        THEN <<st, FALSE>>
        ELSE The({entered(w) : w \in
                    {resolve_healing_wish(hz) : hz \in
                        {apply_entry_hazards(st.bench[side_idx][bench_idx],
                                             st.side[side_idx])}}})

\* switching::pick_random_switch: the bench indices the draw can return
pick_random_switch(bench) ==
    {i \in DOMAIN bench : ~Pokemon_is_fainted(bench[i])}

\* sim::battle::side_has_available
side_has_available(st, side_idx) ==
    \/ ~Pokemon_is_fainted(st.pokemon[side_idx])
    \/ pick_random_switch(st.bench[side_idx]) # {}

\* a substitute made whatever HP its owner has left
make_substitute_unchecked(attacker) ==
    [attacker EXCEPT
        !.current_hp =
            Max(@ - Max(attacker.stats.hp \div 4, 1), 0),
        !.substitute_hp = Max(attacker.stats.hp \div 4, 1)]
\* the "substitute" arm of handle_status_move
make_substitute(attacker) ==
    LET paid(cost) ==
            IF attacker.current_hp <= cost \/ attacker.substitute_hp > 0
            THEN attacker
            ELSE [attacker EXCEPT !.current_hp = Max(@ - cost, 0),
                                  !.substitute_hp = cost]
    IN  paid(Max(attacker.stats.hp \div 4, 1))

\* EnvUpdate::default(), with the fields the rosters can fill: <<>> for
\* None, <<[target, kind]>> for Some(HazardUpdate), <<side>> for
\* healing_wish
NoEnvUpdate ==
    [weather |-> <<>>, field |-> <<>>, hazard |-> <<>>, healing_wish |-> <<>>]

\* sim::battle::apply_env_update, for the hazards of the rosters
apply_env_update(s0, update) ==
    LET laid(st, h) ==
            CASE h.kind = "StealthRock" ->
                    [st EXCEPT !.side[h.target].stealth_rock = TRUE]
              [] h.kind = "Spikes" ->
                    [st EXCEPT !.side[h.target].spikes =
                                   IF @ >= 3 THEN @ ELSE Min(@ + 1, 3)]
              [] h.kind = "StickyWeb" ->
                    [st EXCEPT !.side[h.target].sticky_web = TRUE]
              [] OTHER -> st
        hazard(st) ==
            IF update.hazard = <<>> THEN st ELSE laid(st, update.hazard[1])
        field(st) ==
            hazard(IF update.field = <<>> THEN st
                   ELSE [st EXCEPT !.field = update.field[1],
                                   !.field_turns = 5])
        wished(s1) ==
            IF update.healing_wish = <<>> THEN s1
            ELSE [s1 EXCEPT
                    !.side[update.healing_wish[1]].healing_wish_pending =
                        TRUE]
    IN  wished(field(IF update.weather = <<>> THEN s0
                     ELSE [s0 EXCEPT !.weather = update.weather[1],
                                     !.weather_turns = 5]))

\* secondary::apply_side_effect with side_effect_from_data: the update after
\* the side effect of a secondary effect is staged into it
apply_side_effect(effect, target_self, a_side_idx, d_side_idx, update) ==
    LET kind == CASE effect.side_condition = "stealthrock" -> "StealthRock"
                  [] effect.side_condition = "spikes" -> "Spikes"
                  [] effect.side_condition = "stickyweb" -> "StickyWeb"
                  [] OTHER -> "None"
    IN  IF kind = "None" THEN update
        ELSE [update EXCEPT !.hazard =
                 <<[target |-> IF target_self THEN a_side_idx
                               ELSE d_side_idx,
                    kind |-> kind]>>]

\* the end of execute_move_impl: env_update is handed to apply_env_update
\* only when a status move was used
commit_env_update(st, env_update, status_move_used) ==
    IF status_move_used THEN apply_env_update(st, env_update) ELSE st

\* moves::status::handle_status_move followed by apply_env_update, for the
\* status moves of the rosters; hit is the accuracy draw already taken
handle_status_move(st, attacker_idx, defender_idx, normalized) ==
    CASE normalized = "magiccoat" ->
            [st EXCEPT !.pokemon[attacker_idx].magic_coat_active = TRUE]
      [] normalized = "healingwish" ->
            commit_env_update(
                [st EXCEPT !.pokemon[attacker_idx].current_hp = 0],
                [NoEnvUpdate EXCEPT !.healing_wish =
                    <<1 - Min(defender_idx, 1)>>],
                TRUE)
      [] normalized = "substitute" ->
            [st EXCEPT !.pokemon[attacker_idx] = make_substitute(@)]
      [] normalized = "trickroom" ->
            [st EXCEPT !.trick_room_turns = IF @ > 0 THEN 0 ELSE 5]
      [] normalized = "thunderwave" ->
            IF has_type(st.pokemon[defender_idx], "ground") THEN st
            ELSE [st EXCEPT !.pokemon[defender_idx] =
                     apply_status_with_field(@, "Paralysis", FALSE, 2)]
      [] normalized = "stealthrock" ->
            [st EXCEPT !.side[defender_idx].stealth_rock = TRUE]
      [] normalized = "stickyweb" ->
            [st EXCEPT !.side[defender_idx].sticky_web = TRUE]
      [] normalized = "spikes" ->
            commit_env_update(
                st, [NoEnvUpdate EXCEPT !.hazard =
                        <<[target |-> defender_idx, kind |-> "Spikes"]>>],
                TRUE)
      [] OTHER -> st

\* sim::battle::can_act: <<can act, pokemon>>; low is the outcome of the
\* gen_bool draw (full paralysis, thaw)
can_act(pokemon, low) ==
    IF pokemon.flinched THEN <<FALSE, [pokemon EXCEPT !.flinched = FALSE]>>
    ELSE CASE pokemon.status = "Sleep" ->
                IF pokemon.sleep_turns = 0
                THEN <<TRUE, [pokemon EXCEPT !.status = "None",
                                             !.sleep_turns = 0,
                                             !.toxic_counter = 0]>>
                ELSE <<FALSE, pokemon>>
           [] pokemon.status = "Freeze" ->
                IF low
                THEN <<TRUE, [pokemon EXCEPT !.status = "None",
                                             !.sleep_turns = 0,
                                             !.toxic_counter = 0]>>
                ELSE <<FALSE, pokemon>>
           [] pokemon.status = "Paralysis" -> <<~low, pokemon>>
           [] OTHER -> <<TRUE, pokemon>>

\* battle_items::set_choice_lock_move
set_choice_lock_move(pokemon, move_id) ==
    IF pokemon.item = "None" THEN pokemon
    ELSE IF ~is_choice_item_id(normalize_id(pokemon.item))
    THEN pokemon
    ELSE IF pokemon.choice_lock_move = "None"
    THEN [pokemon EXCEPT !.choice_lock_move = move_id]
    ELSE pokemon

\* the move index execute_move_impl resolves: the index of the move whose
\* name equals the stored lock, when the holder of a choice item is locked
resolved_index(attacker, move_idx) ==
    LET moves == attacker.moves
        found == {i \in DOMAIN moves : moves[i] = attacker.choice_lock_move}
    IN  IF attacker.item # "None"
           /\ is_choice_item_id(normalize_id(attacker.item))
           /\ attacker.choice_lock_move # "None" /\ found # {}
        THEN CHOOSE i \in found : \A j \in found : i <= j
        ELSE move_idx

\* sim::battle::passes_accuracy: TRUE when the roll can fall at or above the
\* final accuracy
can_miss(move_data, attacker, defender) ==
    LET am(stage) == IF stage >= 0 THEN Rat(3 + stage, 3)
                     ELSE Rat(3, 3 - stage)
        final_acc == RDiv(RMul(RInt(move_data.accuracy),
                               am(attacker.accuracy_stage)),
                          am(defender.evasion_stage))
    IN  RLess(final_acc, RInt(100))

\* moves::flags::bypasses_substitute without the sound moves
bypasses_substitute_by_flag(move_data) == move_data.bypasssub
\* moves::flags::bypasses_substitute
bypasses_substitute(move_data) == move_data.bypasssub \/ move_data.sound

\* moves::flags::bypasses_protect
bypasses_protect(move_data) == ~move_data.protect

\* sim::battle::targets_opponent_pokemon
targets_opponent_pokemon(target) ==
    target \in {"normal", "adjacentFoe", "allAdjacentFoes", "randomNormal",
                "any"}

\* a hit whose damage beyond the substitute reaches its owner
hit_substitute_through(defender, damage) ==
    [defender EXCEPT !.substitute_hp = Max(@ - damage, 0),
                     !.current_hp =
                         Max(@ - Max(damage - defender.substitute_hp, 0), 0)]
\* the hit of execute_move_impl that a substitute takes
hit_substitute(defender, damage) ==
    [defender EXCEPT !.substitute_hp = Max(@ - damage, 0)]

\* the damaging branch of execute_move_impl, after the accuracy check
execute_damaging_move(st, attacker_idx, defender_idx, move_data, normalized, d) ==
    LET secondary(def1, damage) ==
            IF damage > 0 /\ move_data.secondaries # <<>>
            THEN apply_secondary_effect(def1, move_data.secondaries[1],
                                        d.sec, 2)
            ELSE def1
        pivoted(st1, total_damage) ==
            IF /\ total_damage > 0
               /\ ~Pokemon_is_fainted(st1.pokemon[attacker_idx])
               /\ normalized \in {"uturn", "voltswitch"}
               /\ d.pivot # NoIdx
            THEN perform_switch(st1, attacker_idx, d.pivot, "Pivot")[1]
            ELSE st1
        forced(st1, damage_to_target) ==
            IF /\ ~Pokemon_is_fainted(st1.pokemon[defender_idx])
               /\ damage_to_target > 0
               /\ normalized \in {"dragontail", "circlethrow"}
               /\ d.force # NoIdx
            THEN perform_switch(st1, defender_idx, d.force, "Forced")[1]
            ELSE st1
        staged(def1, damage) ==
            IF /\ damage > 0 /\ move_data.secondaries # <<>>
               /\ move_data.secondaries[1].chance # 0 /\ d.sec
               /\ ~Pokemon_is_fainted(def1)
            THEN apply_side_effect(move_data.secondaries[1], FALSE,
                                   attacker_idx, defender_idx, NoEnvUpdate)
            ELSE NoEnvUpdate
        drained(att, damage) ==
            IF damage > 0 /\ move_data.drain # <<>>
            THEN apply_drain(att, damage, move_data.drain[1]) ELSE att
        applied(ko) ==
            The({pivoted(s3, ko[1]) : s3 \in
                {forced(s2, ko[1]) : s2 \in
                    {commit_env_update(s1, staged(take_damage(ko[2], ko[1]),
                                                  ko[1]), FALSE) : s1 \in
                        {[st EXCEPT
                            !.pokemon[attacker_idx] =
                                drained(IF /\ ko[1] > 0
                                           /\ move_data.self_effect # <<>>
                                        THEN apply_secondary_effect(
                                               @, move_data.self_effect[1],
                                               TRUE, 2)
                                        ELSE @, ko[1]),
                            !.pokemon[defender_idx] =
                                secondary(take_damage(ko[2], ko[1]),
                                          ko[1])]}}}})
        blocked(damage) ==
            pivoted([st EXCEPT
                       !.pokemon[attacker_idx] =
                           IF damage > 0 /\ move_data.self_effect # <<>>
                           THEN apply_secondary_effect(
                                    @, move_data.self_effect[1], TRUE, 2)
                           ELSE @,
                       !.pokemon[defender_idx] = hit_substitute(@, damage)],
                    damage)
        struck(damage) ==
            IF damage = 0 THEN st
            ELSE IF /\ st.pokemon[defender_idx].substitute_hp > 0
                    /\ ~bypasses_substitute(move_data)
            THEN blocked(damage)
            ELSE The({applied(ko) : ko \in
                        {prevent_ko_if_applicable(st.pokemon[defender_idx],
                                                  damage)}})
    IN  IF /\ move_data.power = 0
           /\ fixed_damage(normalized, st.pokemon[attacker_idx]) = <<>>
        THEN st
        ELSE IF effectiveness_dual(
                    move_data.move_type,
                    st.pokemon[defender_idx].types[1],
                    st.pokemon[defender_idx].types[2])[1] = 0
        THEN st
        ELSE The({struck(damage) : damage \in
                    {hit_damage(st.pokemon[attacker_idx],
                                st.pokemon[defender_idx], move_data,
                                normalized, d.crit, d.roll)}})

\* moves::attacking::is_charging_move, on the entry of the move table
is_charging_move(move_data) == move_data.charge

\* sim::battle::has_consumable_item
has_consumable_item(pokemon, item) ==
    ~pokemon.item_consumed /\ core_has_item(pokemon, item)

\* moves::attacking::handle_charging_move on the first turn of a charging
\* move; no move of the rosters is semi-invulnerable
handle_charging_move(pokemon, move_id) ==
    [pokemon EXCEPT !.charging_move = move_id]

\* the move execute_move_impl goes on with: the stored charging move in
\* place of the move looked up, when a charging move is stored
charged_move(attacker, move_data) ==
    IF /\ attacker.charging_move # "None"
       /\ attacker.charging_move # normalize_id(move_data.name)
    THEN The({IF found = <<>> THEN move_data ELSE found[1] :
                 found \in {get_move(attacker.charging_move)}})
    ELSE move_data

\* sim::battle::execute_move_impl: <<state, used>>, used telling whether the
\* move was announced; d holds the draws of the random generator
execute_move_impl(st, attacker_idx, move_idx, defender_idx, d) ==
    LET attacker == st.pokemon[attacker_idx]
        moves == st.pokemon[attacker_idx].moves
        cleared(second, s1) ==
            IF second
            THEN [s1 EXCEPT !.pokemon[attacker_idx].charging_move = "None"]
            ELSE s1
        hit(move_data, normalized, second, st1) ==
            IF ~d.hit THEN <<cleared(second, st1), TRUE>>
            ELSE IF /\ move_data.category = "Status"
                    /\ st1.pokemon[defender_idx].substitute_hp > 0
                    /\ ~bypasses_substitute(move_data)
                    /\ targets_opponent_pokemon(move_data.target)
            THEN <<cleared(second, st1), TRUE>>
            ELSE IF /\ move_data.category = "Status"
                    /\ targets_opponent_pokemon(move_data.target)
                    /\ st1.pokemon[defender_idx].magic_coat_active
            THEN <<handle_status_move(st1, defender_idx, attacker_idx,
                                      normalized), TRUE>>
            ELSE IF move_data.category = "Status"
            THEN <<handle_status_move(st1, attacker_idx, defender_idx,
                                      normalized), TRUE>>
            ELSE IF /\ st1.pokemon[defender_idx].protect_active
                    /\ ~bypasses_protect(move_data)
            THEN <<cleared(second, st1), TRUE>>
            ELSE <<cleared(second,
                           execute_damaging_move(st1, attacker_idx,
                                                 defender_idx, move_data,
                                                 normalized, d)), TRUE>>
        act(move_data, normalized, second, st1) ==
            IF ~is_charging_move(move_data) \/ second
            THEN hit(move_data, normalized, second, st1)
            ELSE IF has_consumable_item(st1.pokemon[attacker_idx], "powerherb")
            THEN hit(move_data, normalized, second,
                     [st1 EXCEPT !.pokemon[attacker_idx].item_consumed = TRUE])
            ELSE IF normalized = "solarbeam" /\ st1.weather = "Sun"
            THEN hit(move_data, normalized, second, st1)
            ELSE <<[st1 EXCEPT !.pokemon[attacker_idx] =
                       handle_charging_move(@, normalized)], TRUE>>
        checked(move_data, normalized, ca) ==
            IF ~ca[1]
            THEN <<[st EXCEPT !.pokemon[attacker_idx] =
                       [ca[2] EXCEPT !.charging_move = "None"]], FALSE>>
            ELSE The({act(move_data, normalized,
                          attacker.charging_move = normalized, st1) :
                        st1 \in
                        {[st EXCEPT !.pokemon[attacker_idx] =
                            [set_choice_lock_move(ca[2], normalized)
                                EXCEPT !.last_move = normalized]]}})
        named(move_data) ==
            IF move_data.category = "Status" /\ attacker.taunt_turns > 0
            THEN <<st, FALSE>>
            ELSE The({checked(move_data, normalized, ca) :
                         normalized \in {normalize_id(move_data.name)},
                         ca \in {can_act(attacker, d.low)}})
        looked_up(found) ==
            IF found = <<>> THEN <<st, FALSE>>
            ELSE named(charged_move(attacker, found[1]))
        indexed(resolved_idx) ==
            The({looked_up(found) : found \in
                    {IF resolved_idx \in DOMAIN moves
                     THEN get_move(moves[resolved_idx]) ELSE <<>>}})
    IN  IF \/ Pokemon_is_fainted(st.pokemon[attacker_idx])
           \/ Pokemon_is_fainted(st.pokemon[defender_idx])
        THEN <<st, FALSE>>
        ELSE The({indexed(resolved_idx) : resolved_idx \in
                    {resolved_index(attacker, move_idx)}})

\* the forced replacement of run_battle_with_state and
\* handle_simultaneous_faints: the states pick_random_switch can lead to
forced_switch(st, side_idx) ==
    IF ~Pokemon_is_fainted(st.pokemon[side_idx]) THEN {st}
    ELSE IF pick_random_switch(st.bench[side_idx]) = {} THEN {st}
    ELSE {perform_switch(st, side_idx, idx, "Forced")[1] :
             idx \in pick_random_switch(st.bench[side_idx])}

\* sim::battle::handle_simultaneous_faints: the set of resulting states
handle_simultaneous_faints(st) ==
    LET a_fainted == Pokemon_is_fainted(st.pokemon[0])
        b_fainted == Pokemon_is_fainted(st.pokemon[1])
        spe_a == effective_speed(st.pokemon[0])
        spe_b == effective_speed(st.pokemon[1])
        order_a_first == IF a_fainted /\ b_fainted
                         THEN IF spe_a = spe_b THEN BOOLEAN
                              ELSE {spe_a > spe_b}
                         ELSE {a_fainted}
        first(o) == IF o THEN 0 ELSE 1
    IN  IF ~a_fainted /\ ~b_fainted THEN {st}
        ELSE UNION {UNION {forced_switch(s1, other(first(o))) :
                              s1 \in forced_switch(st, first(o))} :
                       o \in order_a_first}

\* sim::battle::apply_start_of_turn_effects
apply_start_of_turn_effects(st) ==
    [st EXCEPT !.pokemon = [s \in CoreSides |->
        IF Pokemon_is_fainted(st.pokemon[s]) THEN st.pokemon[s]
        ELSE [st.pokemon[s] EXCEPT !.flinched = FALSE]]]

\* the per-battler part of apply_end_of_turn_effects
end_of_turn_status(pokemon) ==
    LET hp == pokemon.stats.hp
        taunt(p1) == [p1 EXCEPT !.taunt_turns = IF @ > 0 THEN @ - 1 ELSE @]
    IN  IF Pokemon_is_fainted(pokemon) THEN pokemon
        ELSE taunt(
             CASE pokemon.status = "Burn" ->
                    take_damage(pokemon, Max(hp \div 16, 1))
               [] pokemon.status = "Poison" ->
                    IF pokemon.toxic_counter > 0
                    THEN take_damage(
                           [pokemon EXCEPT !.toxic_counter = Min(@ + 1, 15)],
                           Max((hp * pokemon.toxic_counter) \div 16, 1))
                    ELSE take_damage(pokemon, Max(hp \div 8, 1))
               [] pokemon.status = "Sleep" ->
                    IF pokemon.sleep_turns > 0
                    THEN IF pokemon.sleep_turns = 1
                         THEN [pokemon EXCEPT !.status = "None",
                                              !.sleep_turns = 0,
                                              !.toxic_counter = 0]
                         ELSE [pokemon EXCEPT !.sleep_turns = @ - 1]
                    ELSE pokemon
               [] OTHER -> pokemon)

\* items::battle_items::end_of_turn_effect: <<kind, amount>> of the held
\* item, <<>> when it has no effect
end_of_turn_effect(pokemon) ==
    IF pokemon.item_consumed \/ pokemon.item = "None" THEN <<>>
    ELSE CASE normalize_id(pokemon.item) = "leftovers" ->
                IF pokemon.current_hp >= pokemon.stats.hp THEN <<>>
                ELSE <<"Heal", Max(pokemon.stats.hp \div 16, 1)>>
           [] normalize_id(pokemon.item) = "blacksludge" ->
                IF has_type(pokemon, "poison")
                THEN IF pokemon.current_hp >= pokemon.stats.hp THEN <<>>
                     ELSE <<"Heal", Max(pokemon.stats.hp \div 16, 1)>>
                ELSE <<"Damage", Max(pokemon.stats.hp \div 8, 1)>>
           [] OTHER -> <<>>

\* the held item step of the loop body of apply_end_of_turn_effects, on the
\* Pokemon the status step has left
end_of_turn_held_item(pokemon) ==
    CASE end_of_turn_effect(pokemon) = <<>> -> pokemon
      [] end_of_turn_effect(pokemon)[1] = "Heal" ->
            [pokemon EXCEPT !.current_hp =
                Min(@ + end_of_turn_effect(pokemon)[2], pokemon.stats.hp)]
      [] OTHER -> take_damage(pokemon, end_of_turn_effect(pokemon)[2])

\* the Grassy Terrain step of the loop body of apply_end_of_turn_effects
end_of_turn_terrain(pokemon, field) ==
    IF /\ field = "Grassy" /\ core_is_grounded(pokemon)
       /\ pokemon.current_hp < pokemon.stats.hp
    THEN [pokemon EXCEPT !.current_hp =
            Min(@ + Max(pokemon.stats.hp \div 16, 1), pokemon.stats.hp)]
    ELSE pokemon

\* the loop body of apply_end_of_turn_effects for one Pokemon: skipped when
\* it is fainted at the start, then status, held item and terrain in turn
end_of_turn_pokemon(pokemon, field) ==
    IF Pokemon_is_fainted(pokemon) THEN pokemon
    ELSE end_of_turn_terrain(
             end_of_turn_held_item(end_of_turn_status(pokemon)), field)

\* sim::battle::apply_end_of_turn_effects: the rosters that set a weather
\* set rain and sun, which have no residual damage, and no roster has a
\* perish count or a pending Wish
apply_end_of_turn_effects(st) ==
    [st EXCEPT !.pokemon = [s \in CoreSides |->
                               end_of_turn_pokemon(st.pokemon[s], st.field)],
               !.field = IF st.field_turns = 1 THEN "None" ELSE @,
               !.field_turns = IF @ > 0 THEN @ - 1 ELSE @,
               !.weather = IF st.weather_turns = 1 THEN "None" ELSE @,
               !.weather_turns = IF @ > 0 THEN @ - 1 ELSE @,
               !.trick_room_turns = IF @ > 0 THEN @ - 1 ELSE @]

\* sim::battle::valid_actions and engine::actions_for
valid_actions(pokemon, bench) ==
    {[kind |-> "Move", idx |-> i] :
        i \in DOMAIN pokemon.moves}
    \cup {[kind |-> "Switch", idx |-> i] : i \in pick_random_switch(bench)}

\* engine::battle_outcome, and the result checks of run_battle_with_state
battle_outcome(st) ==
    CASE side_has_available(st, 0) /\ side_has_available(st, 1) -> "None"
      [] side_has_available(st, 0) -> "TeamAWins"
      [] side_has_available(st, 1) -> "TeamBWins"
      [] OTHER -> "Draw"

\* sim::battle::resolve_action: <<state, took effect>>
resolve_action(st, attacker_idx, action, defender_idx, d) ==
    IF action.kind = "Move"
    THEN execute_move_impl(st, attacker_idx, action.idx, defender_idx, d)
    ELSE perform_switch(st, attacker_idx, action.idx, "Voluntary")

\* ------------------------------------------- core driver: the state machine
\* the teams handed to run_team_battle and to BattleEngine::new
CoreTeams ==
    {[team_a |-> <<"Blaze">>, team_b |-> <<"Fang">>],
     [team_a |-> <<"Bander", "Husk">>, team_b |-> <<"Rocker", "Menace">>],
     [team_a |-> <<"Keeper">>, team_b |-> <<"Brawn">>],
     [team_a |-> <<"Bulwark">>, team_b |-> <<"Brawn">>]}

\* the teams handed to BattleEngine::new in the runs with a substitute
SubTeams == {[team_a |-> <<"Decoy">>, team_b |-> <<"Howler">>]}

\* the teams handed to BattleEngine::new in the runs with a forced switch
DragTeams == {[team_a |-> <<"Dragger">>, team_b |-> <<"Pebble", "Fang">>]}

\* the teams handed to BattleEngine::new in the runs that lay spikes
EnvTeams == {[team_a |-> <<"Edger">>, team_b |-> <<"Husk", "Brawn">>]}

\* the teams of the runs with Healing Wish: the user of
\* healing_wish_heals_next_switch_in comes in for a lead that was hit
WishTeams == {[team_a |-> <<"Brawn", "Wisher", "Husk">>, team_b |-> <<"Shard">>]}

\* the teams of the runs with a badly poisoned lead that can leave
ToxicTeams == {[team_a |-> <<"Ailing", "Brawn">>, team_b |-> <<"Fang">>]}

\* the toxic_counter a caller of BattleEngine::new may give the lead of
\* team_a, badly poisoned, as test_toxic_stage_resets_on_switch builds its
\* Pokemon (0: not poisoned)
CoreToxic(species) ==
    IF species \in {"Ailing", "Mender"} THEN {0, 5} ELSE {0}

\* the teams of the runs with a poisoned Leftovers holder
MendTeams == {[team_a |-> <<"Mender", "Brawn">>, team_b |-> <<"Fang">>]}

\* the teams of the runs with a two-turn move, against a target that can
\* faint by its own move
ChargeTeams == {[team_a |-> <<"Charger">>, team_b |-> <<"Wisher", "Pebble">>]}

\* the teams of the runs with a weather and a terrain: set once when the
\* battle starts, or set again by the bench
ClimateTeams ==
    {[team_a |-> <<"Drizzler">>, team_b |-> <<"Surger">>],
     [team_a |-> <<"Drizzler", "Scorcher">>, team_b |-> <<"Surger", "Mister">>]}

\* the teams of the runs with Magic Coat and a flinching move
FlagTeams == {[team_a |-> <<"Coater">>, team_b |-> <<"Husk", "Fang">>]}

\* BattleEngine::new takes the BattleState its caller built, whose Pokemon
\* fields are public: the lead of side A may be handed over trapped, as the
\* tests of switching.rs build it; run_team_battle builds its own state
CoreTrapped(drv) == IF drv = "engine" THEN BOOLEAN ELSE {FALSE}

\* the taunt_turns a caller of BattleEngine::new may give the lead of team_b
CoreTaunted(drv) == IF drv = "step" THEN {0, 3} ELSE {0}

\* the sleep_turns of a lead of team_b that is handed over asleep, as
\* test_sleep_turns_tick_down_at_end_of_turn builds its sleeper (0: awake);
\* the values are the ends of the gen_range(2..=4) draw
CoreAsleep(drv) == IF drv = "step" THEN {0, 2, 4} ELSE {0}

\* the drivers that run BattleEngine::step
is_engine(drv) == drv \in {"engine", "step"}

\* engine::append_active_events
append_active_events(label, before, after) ==
    (IF before.species # after.species
     THEN <<[kind |-> "switch", label |-> label]>> ELSE <<>>)
    \o (IF before.current_hp # after.current_hp
        THEN <<[kind |-> "hp", label |-> label]>> ELSE <<>>)
    \o (IF before.status # after.status
        THEN <<[kind |-> "status", label |-> label]>> ELSE <<>>)

\* engine::build_events: an event is the record of what its line tells
build_events(before, after, outcome) ==
    (IF before.turn # after.turn THEN <<[kind |-> "turn", label |-> ""]>>
     ELSE <<>>)
    \o append_active_events("side_a", before.pokemon[0], after.pokemon[0])
    \o append_active_events("side_b", before.pokemon[1], after.pokemon[1])
    \o (IF outcome # "None" THEN <<[kind |-> "outcome", label |-> outcome]>>
        ELSE <<>>)

\* the history toxic_age after a step of a core driver from s0 to s1; eot
\* tells the step holds the end-of-turn phase
core_age(s0, s1, age, eot) ==
    [s \in CoreSides |->
        IF \/ s1.pokemon[s].species # s0.pokemon[s].species
           \/ s1.pokemon[s].status # "Poison"
           \/ s1.pokemon[s].toxic_counter = 0
        THEN 0
        ELSE IF /\ eot
                /\ s0.pokemon[s].status = "Poison"
                /\ s0.pokemon[s].toxic_counter > 0
        THEN age[s] + 1
        ELSE age[s]]

NoStepResult == [before |-> <<>>, events |-> <<>>]

\* the Action values of a turn: the loop of run_battle_with_state lets the
\* AIs choose among valid_actions; BattleEngine::step takes what its caller
\* passes, a switch to any bench index up to MaxBenchIdx included
turn_actions(pokemon, bench, drv) ==
    valid_actions(pokemon, bench)
    \cup (IF is_engine(drv)
          THEN {[kind |-> "Switch", idx |-> i] : i \in 0 .. MaxBenchIdx}
          ELSE {})

NoCoreActions ==
    [a |-> [kind |-> "Move", idx |-> 0], b |-> [kind |-> "Move", idx |-> 0],
     a_first |-> TRUE, priority |-> [s \in CoreSides |-> 0],
     speed |-> [s \in CoreSides |-> 0], trick_room |-> FALSE]

\* the name of the move execute_move_impl resolves for a move index
resolved_move(pokemon, move_idx) ==
    LET named(found) ==
            IF found # <<>>
            THEN normalize_id(charged_move(pokemon, found[1]).name)
            ELSE "None"
        indexed(moves, idx) ==
            named(IF idx \in DOMAIN moves THEN get_move(moves[idx]) ELSE <<>>)
    IN  indexed(pokemon.moves,
                resolved_index(pokemon, move_idx))

\* the draws execute_move_impl can take from the random generator
CoreDraws(st, side_idx, action) ==
    LET rolled(attacker, name, md) ==
            /\ name # "None" /\ md.category # "Status" /\ md.power > 0
            /\ fixed_damage(name, attacker) = <<>>
        draws(attacker, name, md, picks, drags) ==
            { d \in [low : BOOLEAN, hit : BOOLEAN, crit : CritRolls,
                     roll : DamageRolls, sec : BOOLEAN,
                     pivot : DOMAIN st.bench[side_idx] \cup {NoIdx},
                     force : DOMAIN st.bench[other(side_idx)]
                                 \cup {NoIdx}] :
                /\ d.low => attacker.status \in {"Paralysis", "Freeze"}
                /\ ~d.hit =>
                     (name # "None"
                      /\ can_miss(md, attacker, st.pokemon[other(side_idx)]))
                /\ d.crit => rolled(attacker, name, md)
                /\ d.roll # 100 => rolled(attacker, name, md)
                /\ ~d.sec => (name # "None" /\ md.secondaries # <<>>
                              /\ md.secondaries[1].chance < 100)
                /\ IF name \in {"uturn", "voltswitch"} /\ picks # {}
                   THEN d.pivot \in picks ELSE d.pivot = NoIdx
                /\ IF name \in {"dragontail", "circlethrow"} /\ drags # {}
                   THEN d.force \in drags ELSE d.force = NoIdx }
        named(name) ==
            draws(st.pokemon[side_idx], name,
                  IF name = "None" THEN CoreMoveDefaults
                  ELSE get_move(name)[1],
                  pick_random_switch(st.bench[side_idx]),
                  pick_random_switch(st.bench[other(side_idx)]))
    IN  named(IF action.kind = "Move"
              THEN resolved_move(st.pokemon[side_idx], action.idx)
              ELSE "None")

\* engine::reset_turn_flags; of the flags it clears (protect_active,
\* kings_shield_active, roosted, semi_invulnerable) the rosters can only
\* hold protect_active
reset_turn_flags(st) ==
    [st EXCEPT !.pokemon = [s \in CoreSides |->
        [st.pokemon[s] EXCEPT !.protect_active = FALSE]]]

\* the flags run_battle_with_state clears before the actions are chosen
\* (protect_active, endure_active, magic_coat_active, kings_shield_active,
\* roosted, semi_invulnerable)
reset_loop_flags(st) ==
    [st EXCEPT !.pokemon = [s \in CoreSides |->
        [st.pokemon[s] EXCEPT !.protect_active = FALSE,
                              !.magic_coat_active = FALSE]]]

\* the start of an iteration of run_battle_with_state: the replacements
\* around apply_start_of_turn_effects; BattleEngine::step has none of it
begin_turn(st, drv) ==
    IF is_engine(drv) THEN {reset_turn_flags(st)}
    ELSE LET both(S) == UNION {UNION {forced_switch(s1, 1) :
                                         s1 \in forced_switch(s0, 0)} :
                                  s0 \in S}
         IN  {reset_loop_flags(s2) :
                 s2 \in both({apply_start_of_turn_effects(s) :
                                 s \in both({st})})}

\* the abilities of apply_field_ability and apply_weather_ability
ClimateAbilities ==
    {"Grassy Surge", "Electric Surge", "Psychic Surge", "Misty Surge",
     "Drought", "Drizzle", "Sand Stream", "Snow Warning"}

\* a team member can set a weather or a terrain
sets_climate(st) ==
    \E s \in CoreSides :
        \/ st.pokemon[s].ability \in ClimateAbilities
        \/ \E i \in DOMAIN st.bench[s] :
               st.bench[s][i].ability \in ClimateAbilities

\* the turns a run of a driver is followed for
CoreTurns(drv, st) ==
    IF drv = "step" THEN MaxStepTurns
    ELSE IF drv = "team" THEN MaxCoreTurns
    ELSE IF sets_climate(st) THEN MaxClimateTurns
    ELSE MaxEngineTurns

\* run_battle_with_state from the top of its loop to the call of
\* determine_order in execute_turn, and BattleEngine::step likewise
CoreBegin ==
    /\ driver \in {"team", "engine", "step"}
    /\ core_pc = "begin"
    /\ state.turn < CoreTurns(driver, state)
    /\ battle_outcome(state) = "None"
    /\ \E st \in begin_turn(state, driver) :
         /\ state' = st
         /\ IF battle_outcome(st) # "None"
            THEN core_pc' = "done" /\ core_actions' = NoCoreActions
            ELSE \E action_a \in turn_actions(st.pokemon[0], st.bench[0],
                                               driver),
                    action_b \in turn_actions(st.pokemon[1], st.bench[1],
                                               driver),
                    coin \in BOOLEAN :
                 \E priority_a \in {action_priority(action_a, st.pokemon[0])},
                    priority_b \in {action_priority(action_b, st.pokemon[1])},
                    spe_a \in {effective_speed(st.pokemon[0])},
                    spe_b \in {effective_speed(st.pokemon[1])} :
                   /\ coin => (priority_a = priority_b /\ spe_a = spe_b)
                   /\ core_actions' =
                        [a |-> action_a, b |-> action_b,
                         a_first |-> determine_order(st.pokemon[0], action_a,
                                        st.pokemon[1], action_b,
                                        st.trick_room_turns > 0, coin),
                         priority |-> [s \in CoreSides |->
                            IF s = 0 THEN priority_a ELSE priority_b],
                         speed |-> [s \in CoreSides |->
                            IF s = 0 THEN spe_a ELSE spe_b],
                         trick_room |-> st.trick_room_turns > 0]
                   /\ core_pc' = "first"
    /\ core_executed' = <<>>
    /\ step_result' = IF driver = "step"
                      THEN [before |-> state, events |-> <<>>]
                      ELSE NoStepResult
    /\ toxic_age' = core_age(state, state', toxic_age, FALSE)
    /\ UNCHANGED <<driver, battle_result, matrix, legacy_vars, mcts>>

\* the side execute_turn resolves at a position of the turn
core_side(pos) == IF (pos = "first") = core_actions.a_first THEN 0 ELSE 1

\* a call of resolve_action in execute_turn
CoreResolve ==
    /\ driver \in {"team", "engine", "step"}
    /\ core_pc \in {"first", "second"}
    /\ \E side_idx \in {core_side(core_pc)} :
         /\ core_pc = "second" => ~Pokemon_is_fainted(state.pokemon[side_idx])
         /\ \E action \in {IF side_idx = 0 THEN core_actions.a
                           ELSE core_actions.b} :
            \E d \in CoreDraws(state, side_idx, action) :
            \E r \in {resolve_action(state, side_idx, action,
                                     other(side_idx), d)} :
               /\ state' = r[1]
               /\ core_executed' = Append(core_executed,
                    [side |-> side_idx, action |-> action, effect |-> r[2],
                     user |-> state.pokemon[side_idx],
                     target |-> state.pokemon[other(side_idx)],
                     target_after |-> r[1].pokemon[other(side_idx)],
                     move |-> IF action.kind = "Move"
                              THEN resolved_move(state.pokemon[side_idx],
                                                 action.idx)
                              ELSE "None",
                     incoming_hp |->
                         IF action.kind = "Switch"
                            /\ action.idx \in DOMAIN state.bench[side_idx]
                         THEN state.bench[side_idx][action.idx].current_hp
                         ELSE 0])
    /\ core_pc' = IF core_pc = "first" THEN "second" ELSE "finish"
    /\ toxic_age' = core_age(state, state', toxic_age, FALSE)
    /\ UNCHANGED <<core_actions, step_result, driver, battle_result, matrix, legacy_vars,
                 mcts>>

\* execute_turn does not resolve the second action of a fainted Pokemon
CoreSkip ==
    /\ driver \in {"team", "engine", "step"}
    /\ core_pc = "second"
    /\ Pokemon_is_fainted(state.pokemon[core_side(core_pc)])
    /\ core_pc' = "finish"
    /\ UNCHANGED <<state, core_actions, core_executed, step_result>>
    /\ UNCHANGED <<driver, battle_result, matrix, legacy_vars, mcts, toxic_age>>

\* the end of execute_turn and what the driver runs after it
CoreFinish ==
    /\ driver \in {"team", "engine", "step"}
    /\ core_pc = "finish"
    /\ \E s1 \in handle_simultaneous_faints(state) :
         \E s2 \in (IF driver = "team"
                    THEN handle_simultaneous_faints(
                             apply_end_of_turn_effects(s1))
                    ELSE {apply_end_of_turn_effects(s1)}) :
         \E s3 \in {[s2 EXCEPT !.turn = @ + 1]} :
            /\ state' = s3
            /\ step_result' =
                 IF driver = "step"
                 THEN [step_result EXCEPT !.events =
                          build_events(step_result.before, s3,
                                       battle_outcome(s3))]
                 ELSE NoStepResult
    /\ core_pc' = "begin"
    /\ core_actions' = NoCoreActions
    /\ core_executed' = <<>>
    /\ toxic_age' = core_age(state, state', toxic_age, TRUE)
    /\ UNCHANGED <<driver, battle_result, matrix, legacy_vars, mcts>>

\* the returns of run_battle_with_state: the result it finds at the top of
\* an iteration of its loop or after the start-of-turn effects, and Draw
\* after the last iteration; the loop of the runs followed here has
\* CoreTurns iterations where the source has 500
RunBattleReturn ==
    /\ driver = "team"
    /\ battle_result = "None"
    /\ \/ /\ core_pc = "begin"
          /\ state.turn < CoreTurns(driver, state)
          /\ battle_outcome(state) # "None"
          /\ battle_result' = battle_outcome(state)
       \/ /\ core_pc = "done"
          /\ battle_result' = battle_outcome(state)
       \/ /\ core_pc = "begin"
          /\ state.turn = CoreTurns(driver, state)
          /\ battle_result' = "Draw"
    /\ UNCHANGED <<driver, matrix, legacy_vars, core_vars, mcts, toxic_age>>

\* ------------------------------------------------------- mcts::mcts_action
\* the rewards backprop adds, doubled: outcome_score gives 0, 0.5 and 1
Rewards == {0, 1, 2}

\* the k-th smallest element of a set of indices
nth(S, k) == CHOOSE i \in S : Cardinality({j \in S : j < i}) = k - 1

\* the Vec<Option<PlayerAction>> enumerate_actions builds for a side
option_list(b, side) ==
    IF legal_actions(b, side) = {} THEN <<NoAction>>
    ELSE [k \in 1 .. Cardinality(legal_actions(b, side)) |->
             [kind |-> "Move", idx |-> nth(legal_actions(b, side), k)]]

\* the pairs loop of enumerate_actions
joint_pairs(my_list, opp_list) ==
    [k \in 1 .. Len(my_list) * Len(opp_list) |->
        [my |-> my_list[((k - 1) \div Len(opp_list)) + 1],
         opp |-> opp_list[((k - 1) % Len(opp_list)) + 1]]]

\* mcts::enumerate_actions in MctsMode::Joint
enumerate_actions(b, side) ==
    joint_pairs(option_list(b, side), option_list(b, opponent(side)))

\* the iteration caps the calls are made with (MctsParams.iterations, no
\* time budget): none, as many iterations as the root has joint actions, and
\* one more, which is the one that reaches select_child
IterationCaps(b, side) ==
    {0, Len(enumerate_actions(b, side)), Len(enumerate_actions(b, side)) + 1}

\* Node::new for the root of a call, with the statistics of its children
Node_new(b, side) ==
    [visits |-> 0, total_value |-> 0, children |-> <<>>,
     unexpanded |-> enumerate_actions(b, side)]

\* a backprop whose loop starts after the first index of the path
backprop_below_root(node, action, reward) ==
    [node EXCEPT
        !.children =
            IF action \in DOMAIN @
            THEN [@ EXCEPT ![action] = [visits |-> @.visits + 1,
                                        total_value |-> @.total_value + reward]]
            ELSE @ @@ (action :> [visits |-> 1, total_value |-> reward])]

\* mcts::backprop on the path root, child
backprop(node, action, reward) ==
    [node EXCEPT
        !.visits = @ + 1, !.total_value = @ + reward,
        !.children =
            IF action \in DOMAIN @
            THEN [@ EXCEPT ![action] = [visits |-> @.visits + 1,
                                        total_value |-> @.total_value + reward]]
            ELSE @ @@ (action :> [visits |-> 1, total_value |-> reward])]

\* mcts::select_child: the children the loop over the HashMap can keep as
\* best. A later child replaces the best only with a greater score, so the
\* loop keeps the first child of maximal score in the iteration order of the
\* HashMap, which is unspecified. The caps of the model reach select_child
\* when every child has one visit: the exploration terms are equal and the
\* scores compare as total_value / visits
select_child(node) ==
    {a \in DOMAIN node.children :
        \A o \in DOMAIN node.children :
            node.children[o].total_value * node.children[a].visits
               <= node.children[a].total_value * node.children[o].visits}

\* the aggregates of best_root_action: my action -> <<total_value, visits>>
aggregate(node, my) ==
    LET of_my == {a \in DOMAIN node.children : a.my = my}
        sum_total[S \in SUBSET of_my] ==
            IF S = {} THEN 0
            ELSE LET a == CHOOSE x \in S : TRUE
                 IN  node.children[a].total_value + sum_total[S \ {a}]
        sum_visits[S \in SUBSET of_my] ==
            IF S = {} THEN 0
            ELSE LET a == CHOOSE x \in S : TRUE
                 IN  node.children[a].visits + sum_visits[S \ {a}]
    IN  <<sum_total[of_my], sum_visits[of_my]>>

\* the fallback taken from the back of the unexpanded list
best_root_action_last(node) ==
    LET mine == {a.my : a \in DOMAIN node.children}
        visited == {m \in mine : aggregate(node, m)[2] > 0}
    IN  IF visited = {}
        THEN {IF node.unexpanded = <<>> THEN NoAction
              ELSE node.unexpanded[Len(node.unexpanded)].my}
        ELSE {m \in visited :
                 \A o \in visited :
                     aggregate(node, o)[1] * aggregate(node, m)[2]
                        <= aggregate(node, m)[1] * aggregate(node, o)[2]}
\* mcts::best_root_action: the actions max_by can return. max_by returns the
\* last element of maximal average in the iteration order of the HashMap
\* `aggregates`, which is unspecified
best_root_action(node) ==
    LET mine == {a.my : a \in DOMAIN node.children}
        visited == {m \in mine : aggregate(node, m)[2] > 0}
    IN  IF visited = {}
        THEN {IF node.unexpanded = <<>> THEN NoAction
              ELSE node.unexpanded[1].my}
        ELSE {m \in visited :
                 \A o \in visited :
                     aggregate(node, o)[1] * aggregate(node, m)[2]
                        <= aggregate(node, m)[1] * aggregate(node, o)[2]}

\* the reward an iteration backpropagates: outcome_score of a terminal
\* state or the result of the rollout. It is a function of the seed, the
\* iteration and the path, so a call made with the same seed meets the
\* rewards of the earlier call
reward_draws(m, action) ==
    IF <<m.iterations + 1, action>> \in DOMAIN m.rewards
    THEN {m.rewards[<<m.iterations + 1, action>>]}
    ELSE Rewards

\* one iteration of the while loop of mcts_action
iteration(m, action, reward) ==
    [m EXCEPT
        !.iterations = @ + 1,
        !.node = backprop(
                    [@ EXCEPT !.unexpanded =
                        IF @ # <<>> THEN SubSeq(@, 1, Len(@) - 1) ELSE @],
                    action, reward),
        !.rewards = IF <<m.iterations + 1, action>> \in DOMAIN @ THEN @
                    ELSE @ @@ (<<m.iterations + 1, action>> :> reward)]

\* an iteration that pops an unexpanded action of the root
MctsExpand ==
    /\ driver = "mcts"
    /\ Len(mcts.returned) < 2
    /\ mcts.iterations < mcts.cap
    /\ mcts.node.unexpanded # <<>>
    /\ \E action \in {mcts.node.unexpanded[Len(mcts.node.unexpanded)]} :
       \E reward \in reward_draws(mcts, action) :
          mcts' = iteration(mcts, action, reward)
    /\ UNCHANGED <<driver, battle_result, matrix, legacy_vars, core_vars, toxic_age>>

\* an iteration that descends from the root through select_child
MctsSelect ==
    /\ driver = "mcts"
    /\ Len(mcts.returned) < 2
    /\ mcts.iterations < mcts.cap
    /\ mcts.node.unexpanded = <<>>
    /\ \E action \in select_child(mcts.node) :
       \E reward \in reward_draws(mcts, action) :
          mcts' = iteration(mcts, action, reward)
    /\ UNCHANGED <<driver, battle_result, matrix, legacy_vars, core_vars, toxic_age>>

\* the return of mcts_action; the caller then makes the second call with
\* the same root state, parameters and seed
MctsReturn ==
    /\ driver = "mcts"
    /\ Len(mcts.returned) < 2
    /\ mcts.iterations = mcts.cap
    /\ \E action \in best_root_action(mcts.node) :
          mcts' = [mcts EXCEPT !.returned = Append(@, action),
                               !.iterations = 0,
                               !.node = Node_new(battle, mcts.side)]
    /\ UNCHANGED <<driver, battle_result, matrix, legacy_vars, core_vars, toxic_age>>

\* ------------------------------------- mcts::mcts_action with a time budget
\* start.elapsed() passes params.time_budget: the clock runs on its own and
\* can pass the limit before or after any step of the call
BudgetTick ==
    /\ driver = "budget"
    /\ mcts.returned = <<>>
    /\ ~mcts.expired
    /\ mcts' = [mcts EXCEPT !.expired = TRUE]
    /\ UNCHANGED <<driver, battle_result, matrix, legacy_vars, core_vars, toxic_age>>

\* the condition of the while loop holds: iterations += 1 and the inner loop
\* is entered at the root
BudgetStart ==
    /\ driver = "budget"
    /\ mcts.returned = <<>>
    /\ mcts.phase = "while"
    /\ mcts.iterations < mcts.cap
    /\ ~mcts.expired
    /\ mcts' = [mcts EXCEPT !.iterations = @ + 1, !.phase = "loop",
                            !.path = <<>>]
    /\ UNCHANGED <<driver, battle_result, matrix, legacy_vars, core_vars, toxic_age>>

\* the end of a pass of the inner loop that backpropagates a reward
budget_backprop(m, action, reward) ==
    [m EXCEPT !.node = backprop(@, action, reward),
              !.phase = "while", !.path = <<>>]

\* a pass of the inner loop at the root that pops an unexpanded action,
\* rolls out and backpropagates
BudgetExpand ==
    /\ driver = "budget"
    /\ mcts.phase = "loop"
    /\ mcts.path = <<>>
    /\ mcts.node.unexpanded # <<>>
    /\ \E action \in {mcts.node.unexpanded[Len(mcts.node.unexpanded)]} :
       \E reward \in Rewards :
          mcts' = budget_backprop(
                     [mcts EXCEPT !.node.unexpanded =
                         SubSeq(@, 1, Len(@) - 1)], action, reward)
    /\ UNCHANGED <<driver, battle_result, matrix, legacy_vars, core_vars, toxic_age>>

\* a pass of the inner loop at the root that descends: node_idx = next_idx
BudgetDescend ==
    /\ driver = "budget"
    /\ mcts.phase = "loop"
    /\ mcts.path = <<>>
    /\ mcts.node.unexpanded = <<>>
    /\ \E action \in select_child(mcts.node) :
          mcts' = [mcts EXCEPT !.path = <<action>>]
    /\ UNCHANGED <<driver, battle_result, matrix, legacy_vars, core_vars, toxic_age>>

\* the pass of the inner loop at the child the descent reached: the child
\* is terminal or has an action to expand, and a reward is backpropagated
BudgetChild ==
    /\ driver = "budget"
    /\ mcts.phase = "loop"
    /\ mcts.path # <<>>
    /\ \E reward \in Rewards :
          mcts' = budget_backprop(mcts, mcts.path[1], reward)
    /\ UNCHANGED <<driver, battle_result, matrix, legacy_vars, core_vars, toxic_age>>

\* the condition of the while loop fails and best_root_action is returned
BudgetReturn ==
    /\ driver = "budget"
    /\ mcts.returned = <<>>
    /\ mcts.phase = "while"
    /\ mcts.iterations >= mcts.cap \/ mcts.expired
    /\ \E action \in best_root_action(mcts.node) :
          mcts' = [mcts EXCEPT !.returned = <<action>>]
    /\ UNCHANGED <<driver, battle_result, matrix, legacy_vars, core_vars, toxic_age>>

\* ------------------------------------------ mcts::next_state, mcts::rollout
\* the loop of Battle::run_turn_with_actions over the planned actions and the
\* end of turn after it: the battles the draws can leave
RECURSIVE run_planned(_, _)
run_planned(acts, b) ==
    IF acts = <<>> THEN {end_of_turn(b)}
    ELSE IF alive_count(b, "A") = 0 \/ alive_count(b, "B") = 0 THEN {b}
    ELSE IF is_stale(b, Head(acts)) THEN run_planned(Tail(acts), b)
    ELSE UNION {run_planned(Tail(acts), execute_action(b, Head(acts), d)) :
                   d \in Draws(b, Head(acts))}

\* Battle::run_turn_with_actions on a clone: the battles it can leave
run_turn_with_actions(b, a_action, b_action) ==
    LET b0 == [b EXCEPT !.team["A"][b.active["A"]].protecting = FALSE,
                        !.team["B"][b.active["B"]].protecting = FALSE]
        claws == {c \in [Sides -> BOOLEAN] :
                     \A s \in Sides :
                         c[s] => has_item(active(b0, s), "Quick Claw")}
        plans == {planned_actions(b0, a_action, b_action, c,
                      [s \in Sides |-> IF (s = "A") = a_first THEN 0 ELSE 1]) :
                  c \in claws, a_first \in BOOLEAN}
    IN  UNION {run_planned(pl[1],
                           [pl[2] EXCEPT !.last_turn_move_events = <<>>]) :
               pl \in plans}

\* mcts::next_state in MctsMode::Joint
next_state(b, side, action) ==
    IF side = "A" THEN run_turn_with_actions(b, action.my, action.opp)
    ELSE run_turn_with_actions(b, action.opp, action.my)

\* battle::hp_totals: <<current, max>>
hp_totals(b, side) ==
    LET team == b.team[side]
        sum_hp[i \in -1 .. VecLen(team) - 1] ==
            IF i < 0 THEN 0 ELSE sum_hp[i - 1] + Max(team[i].current_hp, 0)
        sum_max[i \in -1 .. VecLen(team) - 1] ==
            IF i < 0 THEN 0 ELSE sum_max[i - 1] + max_hp(team[i])
    IN  <<sum_hp[VecLen(team) - 1], Max(sum_max[VecLen(team) - 1], 1)>>

\* the unit of the rewards of a search from the root b: a reward r is kept
\* as the integer r * RewardOne(b), which is exact for outcome_score and for
\* the sum evaluate_state forms
RewardOne(b) == 30 * hp_totals(b, "A")[2] * hp_totals(b, "B")[2]

\* mcts::outcome_score in the unit one
outcome_score(result, perspective, one) ==
    IF (result = "AWins" /\ perspective = "A")
       \/ (result = "BWins" /\ perspective = "B") THEN one
    ELSE IF result = "Tie" THEN one \div 2
    ELSE 0

\* battle::evaluate_state in the unit one = 30 * my_max * opp_max:
\* 0.5 + 0.4 * alive_diff / 3 + 0.1 * (my_frac - opp_frac), clamped
evaluate_state(b, perspective, one) ==
    LET alive_diff ==
            Min(Max(alive_count(b, perspective)
                       - alive_count(b, opponent(perspective)), -3), 3)
        my == hp_totals(b, perspective)
        opp == hp_totals(b, opponent(perspective))
        score == (one \div 2) + 4 * alive_diff * (one \div 30)
                 + 3 * (Min(my[1], my[2]) * opp[2]
                           - Min(opp[1], opp[2]) * my[2])
    IN  IF terminal_result(b) # "None"
        THEN outcome_score(terminal_result(b), perspective, one)
        ELSE Min(Max(score, 0), one)

\* mcts::sample_action: the Option<PlayerAction> values choose can return
sample_action(b, side) == {option_list(b, side)[k] :
                              k \in DOMAIN option_list(b, side)}

\* mcts::rollout from the pass of its loop numbered pass on, with rollout_horizon > 0: the
\* rewards the samples and the draws of the turns can give
RECURSIVE rollout(_, _, _, _, _)
rollout(b, perspective, pass, horizon, one) ==
    IF pass >= horizon THEN {evaluate_state(b, perspective, one)}
    ELSE IF terminal_result(b) # "None"
    THEN {outcome_score(terminal_result(b), perspective, one)}
    ELSE UNION {rollout(b2, perspective, pass + 1, horizon, one) :
                   b2 \in UNION {next_state(b, perspective,
                                            [my |-> my, opp |-> opp]) :
                                 my \in sample_action(b, perspective),
                                 opp \in sample_action(
                                            b, opponent(perspective))}}

\* the horizons the searches on the finisher roots are run with
Horizons == {1, 2}

\* an iteration of mcts_action on a finisher root that pops an unexpanded
\* action of the root, makes the child with next_state, rolls out from it
\* and backpropagates
FinisherExpand ==
    /\ driver = "finisher"
    /\ mcts.returned = <<>>
    /\ mcts.iterations < mcts.cap
    /\ mcts.node.unexpanded # <<>>
    /\ \E action \in {mcts.node.unexpanded[Len(mcts.node.unexpanded)]} :
       \E child \in next_state(battle, mcts.side, action) :
       \E reward \in rollout(child, mcts.side, 0, mcts.horizon,
                             RewardOne(battle)) :
          mcts' = [mcts EXCEPT
                     !.iterations = @ + 1,
                     !.node = backprop(
                                 [@ EXCEPT !.unexpanded =
                                     SubSeq(@, 1, Len(@) - 1)],
                                 action, reward)]
    /\ UNCHANGED <<driver, battle_result, matrix, legacy_vars, core_vars, toxic_age>>

\* the return of mcts_action on a finisher root
FinisherReturn ==
    /\ driver = "finisher"
    /\ mcts.returned = <<>>
    /\ mcts.iterations = mcts.cap
    /\ \E action \in best_root_action(mcts.node) :
          mcts' = [mcts EXCEPT !.returned = <<action>>]
    /\ UNCHANGED <<driver, battle_result, matrix, legacy_vars, core_vars, toxic_age>>

\* ------------------------------------------------- matrix::compute_matrix
\* the greatest sims_per_cell of the calls
MaxSims == 1

\* the workers of the thread pool par_iter runs the cells on
Workers == {1, 2}

\* what simulate_battle can return
Results == {"AWins", "BWins", "Tie"}

\* the team sizes of the TeamsFile the matrix is computed for
MatrixTeams == [team_a |-> 3, team_b |-> 4]

\* the seed compute_matrix is called with, a u64 as <<high, low>> halves
Seeds == {<<0, 1>>}

\* bitwise exclusive or of two naturals
RECURSIVE Xor(_, _)
Xor(x, y) ==
    IF x = 0 THEN y
    ELSE IF y = 0 THEN x
    ELSE (((x % 2) + (y % 2)) % 2) + 2 * Xor(x \div 2, y \div 2)

\* matrix::choose3_indices: the triples in the order the loops push them
choose3_indices(len) ==
    LET combos == {c \in (0 .. len - 1) \X (0 .. len - 1) \X (0 .. len - 1) :
                      c[1] < c[2] /\ c[2] < c[3]}
        before(c, e) == \/ c[1] < e[1]
                        \/ c[1] = e[1] /\ c[2] < e[2]
                        \/ c[1] = e[1] /\ c[2] = e[2] /\ c[3] < e[3]
    IN  [n \in 1 .. Cardinality(combos) |->
            CHOOSE c \in combos :
                Cardinality({e \in combos : before(e, c)}) = n - 1]

\* the tasks of compute_matrix: the cells (a_idx, b_idx), row by row
tasks(teams) ==
    LET rows == Len(choose3_indices(teams.team_a))
        cols == Len(choose3_indices(teams.team_b))
    IN  [n \in 1 .. rows * cols |->
            [a_idx |-> (n - 1) \div cols, b_idx |-> (n - 1) % cols]]

\* SmallRng::seed_from_u64(seed ^ ((a_idx as u64) << 32) ^ (b_idx as u64)):
\* the generator of a cell, with the number of values taken from it
cell_rng(seed, task) ==
    [seed |-> <<Xor(seed[1], task.a_idx), Xor(seed[2], task.b_idx)>>,
     draws |-> 0]

\* one generator behind all cells: the value a cell takes is the next of
\* the values taken by any cell
battle_seed_shared(m, w) == <<m.seed, m.drawn>>
\* cell_rng.gen() in the loop of a cell: a function of the seed of the
\* generator of the cell and of the number of values taken from it
battle_seed(m, w) == <<m.running[w].cell_rng.seed, m.running[w].cell_rng.draws>>

NoTask == [task |-> 0]

\* the state of a call of compute_matrix; first and reordered are a history:
\* the task the first call started with and whether the second call started
\* with another
Matrix_new(seed, sims_per_cell, memo, returned, first, reordered) ==
    [seed |-> seed, sims_per_cell |-> sims_per_cell,
     tasks |-> tasks(MatrixTeams),
     pending |-> DOMAIN tasks(MatrixTeams),
     running |-> [w \in Workers |-> NoTask],
     cell_results |-> <<>>, drawn |-> 0, memo |-> memo,
     returned |-> returned, first |-> first, reordered |-> reordered]

\* a worker takes a task of the parallel iterator and seeds its cell_rng
MatrixTake ==
    /\ driver = "matrix"
    /\ Len(matrix.returned) < 2
    /\ \E w \in Workers : \E t \in matrix.pending :
          /\ matrix.running[w] = NoTask
          /\ matrix' = [matrix EXCEPT
                 !.pending = @ \ {t},
                 !.first = IF matrix.pending = DOMAIN matrix.tasks
                              /\ matrix.returned = <<>>
                           THEN t ELSE @,
                 !.reordered = IF matrix.pending = DOMAIN matrix.tasks
                                  /\ matrix.returned # <<>>
                               THEN t # matrix.first ELSE @,
                 !.running[w] =
                     [task |-> t,
                      cell_rng |-> cell_rng(matrix.seed,
                                            matrix.tasks[t]),
                      a_wins |-> 0, ties |-> 0, sims |-> 0]]
    /\ UNCHANGED <<driver, battle_result, legacy_vars, core_vars, mcts, toxic_age>>

\* one pass of the loop of a cell: simulate_battle on the selections of the
\* cell and the next value of the generator. Its result is a function of
\* its arguments, so a call with arguments met before meets the result of
\* the earlier call
MatrixSim ==
    /\ driver = "matrix"
    /\ \E w \in Workers :
          /\ matrix.running[w] # NoTask
          /\ matrix.running[w].sims < matrix.sims_per_cell
          /\ \E key \in {<<matrix.running[w].task, battle_seed(matrix, w)>>} :
             \E result \in (IF key \in DOMAIN matrix.memo
                             THEN {matrix.memo[key]} ELSE Results) :
                matrix' = [matrix EXCEPT
                    !.running[w].cell_rng.draws = @ + 1,
                    !.running[w].sims = @ + 1,
                    !.running[w].a_wins =
                        IF result = "AWins" THEN @ + 1 ELSE @,
                    !.running[w].ties = IF result = "Tie" THEN @ + 1 ELSE @,
                    !.drawn = @ + 1,
                    !.memo = IF key \in DOMAIN @ THEN @
                             ELSE @ @@ (key :> result)]
    /\ UNCHANGED <<driver, battle_result, legacy_vars, core_vars, mcts, toxic_age>>

\* the CellResult of a cell whose loop has ended: win_rate =
\* (a_wins + 0.5 * ties) / total, kept as <<2 * a_wins + ties, 2 * total>>
MatrixCell ==
    /\ driver = "matrix"
    /\ \E w \in Workers :
          /\ matrix.running[w] # NoTask
          /\ matrix.running[w].sims = matrix.sims_per_cell
          /\ matrix' = [matrix EXCEPT
                 !.running[w] = NoTask,
                 !.cell_results = @ @@
                     (matrix.running[w].task :>
                        [a_idx |-> matrix.tasks[matrix.running[w].task]
                                       .a_idx,
                         b_idx |-> matrix.tasks[matrix.running[w].task]
                                       .b_idx,
                         win_rate |-> <<2 * matrix.running[w].a_wins
                                           + matrix.running[w].ties,
                                        2 * matrix.sims_per_cell>>])]
    /\ UNCHANGED <<driver, battle_result, legacy_vars, core_vars, mcts, toxic_age>>

\* the matrix the last loop of compute_matrix fills from the cell results
fill_matrix(cell_results) ==
    [a \in {cell_results[t].a_idx : t \in DOMAIN cell_results} |->
        [b \in {cell_results[t].b_idx : t \in DOMAIN cell_results} |->
            LET t == CHOOSE u \in DOMAIN cell_results :
                        /\ cell_results[u].a_idx = a
                        /\ cell_results[u].b_idx = b
            IN  cell_results[t].win_rate]]

\* collect has every CellResult and compute_matrix returns; the caller then
\* makes the second call with the same teams, sims_per_cell and seed
MatrixReturn ==
    /\ driver = "matrix"
    /\ Len(matrix.returned) < 2
    /\ matrix.pending = {}
    /\ \A w \in Workers : matrix.running[w] = NoTask
    /\ matrix' = Matrix_new(matrix.seed, matrix.sims_per_cell, matrix.memo,
                            Append(matrix.returned,
                                   fill_matrix(matrix.cell_results)),
                            matrix.first, matrix.reordered)
    /\ UNCHANGED <<driver, battle_result, legacy_vars, core_vars, mcts, toxic_age>>

\* ------------------------------------------------------- the specification
\* the callers that run on a Battle of src/src/battle.rs
LegacyDrivers == {"simple", "mcts", "budget", "finisher"}

InitWith(drivers, files, teams) ==
    /\ driver \in drivers
    /\ IF driver \in LegacyDrivers
       THEN \E tf \in files :
              battle = new_with_options(tf.team_a, tf.team_b, tf.options)
       ELSE battle = <<>>
    /\ actions = <<>>
    /\ pc = "idle"
    /\ turn = 0
    /\ planning = NoPlanning
    /\ executed = <<>>
    /\ IF driver = "matrix"
       THEN \E seed \in Seeds : \E sims_per_cell \in 1 .. MaxSims :
              matrix = Matrix_new(seed, sims_per_cell, <<>>, <<>>, 0, FALSE)
       ELSE matrix = <<>>
    /\ IF driver \in LegacyDrivers \cup {"matrix"} THEN state = <<>>
       ELSE \E t \in teams :
            \E trapped \in CoreTrapped(driver) :
            \E taunt \in CoreTaunted(driver) :
            \E slp \in CoreAsleep(driver) :
            \E tox \in CoreToxic(Head(t.team_a)) :
              state = apply_on_entry_abilities(
                          [new_with_bench(t.team_a, t.team_b)
                              EXCEPT !.pokemon[0].trapped = trapped,
                                     !.pokemon[0].status =
                                         IF tox > 0 THEN "Poison" ELSE @,
                                     !.pokemon[0].toxic_counter = tox,
                                     !.pokemon[1].taunt_turns = taunt,
                                     !.pokemon[1].status =
                                         IF slp > 0 THEN "Sleep" ELSE @,
                                     !.pokemon[1].sleep_turns = slp])
    /\ core_pc = "begin"
    /\ battle_result = "None"
    /\ core_actions = NoCoreActions
    /\ core_executed = <<>>
    /\ step_result = NoStepResult
    /\ toxic_age = [s \in (IF driver \in LegacyDrivers THEN Sides
                            ELSE CoreSides) |-> 0]
    /\ IF driver = "mcts"
       THEN \E side \in Sides : \E cap \in IterationCaps(battle, side) :
              mcts = [side |-> side, cap |-> cap, iterations |-> 0,
                      node |-> Node_new(battle, side), rewards |-> <<>>,
                      returned |-> <<>>]
       ELSE IF driver = "budget"
       THEN \E side \in Sides : \E cap \in IterationCaps(battle, side) :
              mcts = [side |-> side, cap |-> cap, iterations |-> 0,
                      node |-> Node_new(battle, side), returned |-> <<>>,
                      expired |-> FALSE, phase |-> "while", path |-> <<>>]
       ELSE IF driver = "finisher"
       THEN \E side \in Sides : \E horizon \in Horizons :
              mcts = [side |-> side, horizon |-> horizon, iterations |-> 0,
                      cap |-> Len(enumerate_actions(battle, side)),
                      node |-> Node_new(battle, side), returned |-> <<>>]
       ELSE mcts = <<>>

InitOf(drivers) == InitWith(drivers, TeamsFiles, CoreTeams)

Init == InitOf({"simple", "team", "engine", "mcts"})

Next ==
    \/ RunTurn
    \/ ReturnEarly
    \/ SkipAction
    \/ ExecuteAction
    \/ EndOfTurn
    \/ CoreBegin
    \/ CoreResolve
    \/ CoreSkip
    \/ CoreFinish
    \/ MctsExpand
    \/ MctsSelect
    \/ MctsReturn

Spec == Init /\ [][Next]_vars

\* the callers of BattleEngine::step that read its StepResult
StepInit == InitOf({"step"})

StepNext ==
    \/ CoreBegin
    \/ CoreResolve
    \/ CoreSkip
    \/ CoreFinish

StepSpec == StepInit /\ [][StepNext]_vars

\* BattleEngine::step on the teams with a substitute
SubInit == InitWith({"engine"}, TeamsFiles, SubTeams)

SubSpec == SubInit /\ [][StepNext]_vars

\* a call of mcts_action with params.time_budget set
BudgetInit == InitOf({"budget"})

BudgetNext ==
    \/ BudgetTick
    \/ BudgetStart
    \/ BudgetExpand
    \/ BudgetDescend
    \/ BudgetChild
    \/ BudgetReturn

BudgetSpec == BudgetInit /\ [][BudgetNext]_vars

\* BattleEngine::step on the teams with a forced switch
DragInit == InitWith({"engine"}, TeamsFiles, DragTeams)

DragSpec == DragInit /\ [][StepNext]_vars

\* BattleEngine::step on the teams that lay spikes
EnvInit == InitWith({"engine"}, TeamsFiles, EnvTeams)

EnvSpec == EnvInit /\ [][StepNext]_vars

\* BattleEngine::step on the teams with Healing Wish
WishInit == InitWith({"engine"}, TeamsFiles, WishTeams)

WishSpec == WishInit /\ [][StepNext]_vars

\* BattleEngine::step on the teams with a badly poisoned lead
ToxicInit == InitWith({"engine"}, TeamsFiles, ToxicTeams)

ToxicSpec == ToxicInit /\ [][StepNext]_vars

\* BattleEngine::step on the teams with a two-turn move
ChargeInit == InitWith({"engine"}, TeamsFiles, ChargeTeams)

ChargeSpec == ChargeInit /\ [][StepNext]_vars

\* the simple driver and BattleEngine::step on the teams that set a weather
\* or a terrain
ClimateInit == InitWith({"simple", "engine"}, ClimateFiles, ClimateTeams)

ClimateNext ==
    \/ RunTurn
    \/ ReturnEarly
    \/ SkipAction
    \/ ExecuteAction
    \/ EndOfTurn
    \/ CoreBegin
    \/ CoreResolve
    \/ CoreSkip
    \/ CoreFinish

\* the runs of the simple driver and of the engine with a weather or a
\* terrain
ClimateSpec == ClimateInit /\ [][ClimateNext]_vars

\* simulate_battle_with_options and run_battle_with_state from their first
\* iteration to their return
ResultInit == InitWith({"simple", "team"}, TeamsFiles, CoreTeams)

ResultNext ==
    \/ RunTurn
    \/ ReturnEarly
    \/ SkipAction
    \/ ExecuteAction
    \/ EndOfTurn
    \/ SimulateReturn
    \/ CoreBegin
    \/ CoreResolve
    \/ CoreSkip
    \/ CoreFinish
    \/ RunBattleReturn

ResultSpec == ResultInit /\ [][ResultNext]_vars

\* the simple driver and BattleEngine::step on the teams with a poisoned
\* Leftovers holder
MendInit == InitWith({"simple", "engine"}, TeamsFiles, MendTeams)

MendSpec == MendInit /\ [][ClimateNext]_vars

\* run_team_battle and BattleEngine::step on the teams with Magic Coat
FlagInit == InitWith({"team", "engine"}, TeamsFiles, FlagTeams)

FlagSpec == FlagInit /\ [][StepNext]_vars

\* a call of mcts_action on a root of mcts_prefers_finishing_move, with as
\* many iterations as the root has joint actions
FinisherInit == InitWith({"finisher"}, FinisherFiles, CoreTeams)

FinisherNext == FinisherExpand \/ FinisherReturn

FinisherSpec == FinisherInit /\ [][FinisherNext]_vars

\* the calls of mcts_action of the two kinds: with the iteration caps that
\* reach select_child, and on the finisher roots with their rollouts
SearchInit ==
    \/ InitWith({"mcts"}, TeamsFiles, CoreTeams)
    \/ InitWith({"finisher"}, FinisherFiles, CoreTeams)

SearchNext ==
    \/ MctsExpand
    \/ MctsSelect
    \/ MctsReturn
    \/ FinisherExpand
    \/ FinisherReturn

SearchSpec == SearchInit /\ [][SearchNext]_vars

\* two calls of compute_matrix
MatrixInit == InitWith({"matrix"}, TeamsFiles, CoreTeams)

MatrixNext == MatrixTake \/ MatrixSim \/ MatrixCell \/ MatrixReturn

MatrixSpec == MatrixInit /\ [][MatrixNext]_vars

\* the simple driver on the team files with a Custap Berry
CustapInit == InitWith({"simple"}, CustapFiles, CoreTeams)

CustapNext ==
    \/ RunTurn
    \/ ReturnEarly
    \/ SkipAction
    \/ ExecuteAction
    \/ EndOfTurn

CustapSpec == CustapInit /\ [][CustapNext]_vars

\* ------------------------------------------------------------ the claims
\* max HP of a battler of the core driver
core_max_hp(pokemon) == Roster[pokemon.species].stats.hp

\* C1: in both drivers the current HP of every battler is an integer
\* between 0 and its max HP
C1_HpInRange ==
    /\ driver = "simple" =>
         \A s \in Sides : \A i \in DOMAIN battle.team[s] :
            /\ battle.team[s][i].current_hp >= 0
            /\ battle.team[s][i].current_hp <= max_hp(battle.team[s][i])
    /\ driver \in {"team", "engine"} =>
         \A s \in CoreSides :
            /\ state.pokemon[s].current_hp >= 0
            /\ state.pokemon[s].current_hp <= core_max_hp(state.pokemon[s])
            /\ \A i \in DOMAIN state.bench[s] :
                  /\ state.bench[s][i].current_hp >= 0
                  /\ state.bench[s][i].current_hp
                        <= core_max_hp(state.bench[s][i])

\* C2: whenever an action is executed for a side that still has a
\* non-fainted battler, the active battler of that side is not fainted (in
\* the simple driver execute_action runs only while both sides have a
\* battler left; in the core driver an action is executed when
\* resolve_action reports that it took effect)
C2_ActiveNotFainted ==
    /\ driver = "simple" =>
         \A k \in DOMAIN executed : ~is_fainted(executed[k].user)
    /\ driver \in {"team", "engine"} =>
         \A k \in DOMAIN core_executed :
            core_executed[k].effect =>
               ~Pokemon_is_fainted(core_executed[k].user)

\* C3: a fainted battler is never the user of a move that executes, and no
\* voluntary switch makes a fainted battler the active one
C3_FaintedIneligible ==
    /\ driver = "simple" =>
         \A k \in DOMAIN executed :
            /\ executed[k].action.switch_target = NoIdx =>
                  ~is_fainted(executed[k].user)
            /\ (executed[k].action.switch_target # NoIdx
                   /\ executed[k].switched) =>
                  ~is_fainted(executed[k].incoming)
    /\ driver \in {"team", "engine"} =>
         \A k \in DOMAIN core_executed :
            /\ (core_executed[k].action.kind = "Move"
                   /\ core_executed[k].effect) =>
                  ~Pokemon_is_fainted(core_executed[k].user)
            /\ (core_executed[k].action.kind = "Switch"
                   /\ core_executed[k].effect) =>
                  core_executed[k].incoming_hp > 0

\* a switch action that names a fainted team member other than the active
\* one has been executed in the simple driver, next to a move action
C3_Witness ==
    /\ driver = "simple"
    /\ \E k \in DOMAIN executed :
          /\ executed[k].action.switch_target \in DOMAIN battle.team[executed[k].action.side]
          /\ executed[k].action.switch_target # battle.active[executed[k].action.side]
          /\ is_fainted(battle.team[executed[k].action.side][executed[k].action.switch_target])
    /\ \E k \in DOMAIN executed : executed[k].action.switch_target = NoIdx

\* C5: two calls of mcts_action with the same root state, parameters and
\* seed return the same action
C5_MctsDeterministic ==
    (driver = "mcts" /\ Len(mcts.returned) = 2) =>
        mcts.returned[1] = mcts.returned[2]

\* the stage components of a battler of the simple driver
stages_of(battler) ==
    {battler.stat_stages[f] : f \in DOMAIN battler.stat_stages}

\* the stage components of a battler of the core driver
core_stages_of(pokemon) ==
    {pokemon.stat_stages[i] : i \in DOMAIN pokemon.stat_stages}
    \cup {pokemon.accuracy_stage, pokemon.evasion_stage}

\* C6: after any sequence of stage changes every stage component of every
\* battler is an integer in [-6, 6]
C6_StagesInRange ==
    /\ driver = "simple" =>
         \A s \in Sides : \A i \in DOMAIN battle.team[s] :
            stages_of(battle.team[s][i]) \subseteq -6 .. 6
    /\ driver \in {"team", "engine"} =>
         \A s \in CoreSides :
            /\ core_stages_of(state.pokemon[s]) \subseteq -6 .. 6
            /\ \A i \in DOMAIN state.bench[s] :
                  core_stages_of(state.bench[s][i]) \subseteq -6 .. 6

\* a move that raises the Atk of its user by 3 was executed by a user
\* already at +3 or above, and the user stands at +6
C6_Witness ==
    /\ driver = "simple"
    /\ \E k \in DOMAIN executed :
          /\ executed[k].action.move_def.self_boosts # <<>>
          /\ executed[k].action.move_def.self_boosts[1].atk = 3
          /\ executed[k].user.stat_stages.atk >= 3
          /\ active(battle, executed[k].action.side).stat_stages.atk = 6

\* the status fields of a battler of either driver
status_fields(battler) ==
    <<battler.status, battler.sleep_turns, battler.toxic_counter>>

\* C7: an action executed against a battler that already has a major
\* status leaves the status, the sleep-turn counter and the toxic counter of
\* that battler unchanged
C7_StatusKept ==
    /\ driver = "simple" =>
         \A k \in DOMAIN executed :
            executed[k].target.status # "None" =>
               status_fields(executed[k].target_after)
                  = status_fields(executed[k].target)
    /\ driver \in {"team", "engine"} =>
         \A k \in DOMAIN core_executed :
            core_executed[k].target.status # "None" =>
               status_fields(core_executed[k].target_after)
                  = status_fields(core_executed[k].target)

\* a move that carries a status of its own and a secondary one has hit a
\* battler whose toxic counter had started to count
C7_Witness ==
    /\ driver = "simple"
    /\ \E k \in DOMAIN executed :
          /\ executed[k].hit
          /\ executed[k].action.move_def.status # "None"
          /\ executed[k].action.move_def.secondary # <<>>
          /\ executed[k].target.status = "Toxic"
          /\ executed[k].target.toxic_counter > 0
          /\ ~is_fainted(executed[k].target_after)

\* C8: a battler that holds a choice item and has used a move since it
\* switched in executes that move in every later move action, whatever
\* index the caller passes
C8_ChoiceLocked ==
    /\ driver = "simple" =>
         \A k \in DOMAIN executed :
            (/\ executed[k].action.switch_target = NoIdx
             /\ is_choice_item(executed[k].user)
             /\ executed[k].user.choice_lock # NoIdx) =>
               executed[k].action.move_def
                  = executed[k].user.pokemon.moves[
                        executed[k].user.choice_lock]
    /\ driver \in {"team", "engine"} =>
         \A k \in DOMAIN core_executed :
            (/\ core_executed[k].action.kind = "Move"
             /\ core_executed[k].effect
             /\ core_executed[k].user.choice_lock_move # "None") =>
               core_executed[k].move = core_executed[k].user.choice_lock_move

\* C9: in a turn where one side switches and the other side uses a move,
\* the switch is executed before the move, whatever the priority of the
\* move and the speeds of the battlers: once a move has been executed, no
\* switch is executed after it or is still planned
C9_SwitchFirst ==
    /\ driver = "simple" =>
         \A k \in DOMAIN executed :
            executed[k].action.switch_target = NoIdx =>
               /\ \A j \in DOMAIN executed :
                     j > k => executed[j].action.switch_target = NoIdx
               /\ \A i \in DOMAIN actions :
                     actions[i].switch_target = NoIdx
    /\ driver \in {"team", "engine"} =>
         \A k \in DOMAIN core_executed :
            core_executed[k].action.kind = "Move" =>
               /\ \A j \in DOMAIN core_executed :
                     j > k => core_executed[j].action.kind = "Move"
               /\ k = 1 => /\ core_actions.a.kind = "Move"
                           /\ core_actions.b.kind = "Move"

\* a switch has been executed before the move of a faster battler whose
\* move has a positive priority
C9_Witness ==
    /\ driver = "simple"
    /\ Len(executed) = 2
    /\ executed[1].action.switch_target # NoIdx
    /\ executed[1].switched
    /\ executed[2].action.switch_target = NoIdx
    /\ executed[2].action.move_def.priority > 0
    /\ executed[2].action.speed > executed[1].action.speed

\* C10: when both sides use moves, the move with the higher effective
\* priority is executed first whatever the speeds; with equal priority the
\* battler with the higher effective speed moves first, and while trick
\* room is active the battler with the lower effective speed moves first
C10_MoveOrder ==
    LET ordered(p1, p2, s1, s2, room) ==
            /\ p1 >= p2
            /\ (p1 = p2 /\ s1 # s2) => (IF room THEN s1 < s2 ELSE s1 > s2)
        legacy(first, second) ==
            (first.switch_target = NoIdx /\ second.switch_target = NoIdx) =>
               /\ ~RLess(first.priority_value, second.priority_value)
               /\ ordered(0, 0, planning.speed[first.side],
                          planning.speed[second.side], planning.trick_room)
                    \/ first.priority_value # second.priority_value
        core(first) ==
            (core_actions.a.kind = "Move" /\ core_actions.b.kind = "Move") =>
               ordered(core_actions.priority[first],
                       core_actions.priority[other(first)],
                       core_actions.speed[first],
                       core_actions.speed[other(first)],
                       core_actions.trick_room)
    IN  /\ (driver = "simple" /\ Len(executed) = 2) =>
              legacy(executed[1].action, executed[2].action)
        /\ (driver = "simple" /\ Len(executed) = 1 /\ actions # <<>>) =>
              legacy(executed[1].action, actions[1])
        /\ (driver \in {"team", "engine"} /\ core_executed # <<>>) =>
              core(core_executed[1].side)

C12_SwitchReset ==
    [][/\ driver = "simple" =>
            \A s \in Sides :
               (/\ battle'.active[s] # battle.active[s]
                /\ ~is_fainted(active(battle, s)))
               => LET before == active(battle, s)
                      after == battle'.team[s][battle.active[s]]
                  IN  /\ after.stat_stages = NoBoosts
                      /\ ~after.protecting
                      /\ after.choice_lock = NoIdx
                      /\ after.sash_used = before.sash_used
                      /\ after.berry_used = before.berry_used
                      /\ (/\ actions # <<>>
                          /\ Head(actions).switch_target # NoIdx)
                         => after.move_pp = before.move_pp
       /\ driver \in {"team", "engine"} =>
            \A s \in CoreSides :
               (/\ state'.pokemon[s].species # state.pokemon[s].species
                /\ ~Pokemon_is_fainted(state.pokemon[s]))
               => \E i \in DOMAIN state'.bench[s] :
                     /\ state'.bench[s][i].species = state.pokemon[s].species
                     /\ state'.bench[s][i].stat_stages = [k \in 0 .. 5 |-> 0]
                     /\ state'.bench[s][i].accuracy_stage = 0
                     /\ state'.bench[s][i].evasion_stage = 0
                     /\ ~state'.bench[s][i].flinched
                     /\ ~state'.bench[s][i].trapped
                     /\ state'.bench[s][i].choice_lock_move = "None"]_vars

\* C13: a battler that a switch action brings in takes the stealth rock the
\* opposing side laid on its side (it loses HP on entry), and a battler that
\* enters while the opposing side has laid no hazard enters unharmed, whatever
\* its own side has laid
C13_HazardSide ==
    [][(/\ driver = "simple" =>
            \A s \in Sides :
               (/\ actions # <<>>
                /\ Head(actions).side = s
                /\ Head(actions).switch_target # NoIdx
                /\ battle'.active[s] # battle.active[s])
               => LET before == battle.team[s][battle'.active[s]]
                      after == active(battle', s)
                      laid == battle.side_state[s].hazards
                  IN  /\ laid.stealth_rock
                            => after.current_hp < before.current_hp
                      /\ laid = NoHazards => after = before
        /\ driver \in {"team", "engine"} =>
            \A s \in CoreSides :
               (/\ core_pc \in {"first", "second"}
                /\ core_side(core_pc) = s
                /\ state'.pokemon[s].species # state.pokemon[s].species)
               => \E i \in DOMAIN state.bench[s] :
                     /\ state.bench[s][i].species = state'.pokemon[s].species
                     /\ state.side[s].stealth_rock
                           => state'.pokemon[s].current_hp
                                 < state.bench[s][i].current_hp
                     /\ state.side[s].sticky_web
                           => state'.pokemon[s].stat_stages[STAGE_SPE]
                                 < state.bench[s][i].stat_stages[STAGE_SPE]
                     /\ state.side[s] = SideConditions_default
                           => /\ state'.pokemon[s].current_hp
                                    = state.bench[s][i].current_hp
                              /\ state'.pokemon[s].stat_stages
                                    = state.bench[s][i].stat_stages)]_vars

\* C14: when a damaging pivot move hits and its user survives with a
\* teammate that has not fainted on the bench, the user leaves the field in
\* the same step, a different battler is active, and the battler that comes
\* in has taken the stealth rock laid on its side
C14_PivotSwitch ==
    [][(/\ driver = "simple" =>
            \A s \in Sides :
               (/\ actions # <<>>
                /\ Head(actions).side = s
                /\ Head(actions).switch_target = NoIdx
                /\ Head(actions).move_def.switch_after
                /\ Head(actions).move_def.power > 0
                /\ Len(executed') > Len(executed)
                /\ executed'[Len(executed')].hit
                /\ ~is_fainted(battle'.team[s][battle.active[s]])
                /\ \E i \in DOMAIN battle.team[s] :
                      /\ i # battle.active[s]
                      /\ ~is_fainted(battle.team[s][i]))
               => /\ battle'.active[s] # battle.active[s]
                  /\ battle.side_state[s].hazards.stealth_rock
                        => battle'.team[s][battle'.active[s]].current_hp
                              < battle.team[s][battle'.active[s]].current_hp
        /\ driver \in {"team", "engine"} =>
            \A s \in CoreSides :
               (/\ core_pc \in {"first", "second"}
                /\ core_side(core_pc) = s
                /\ Len(core_executed') > Len(core_executed)
                /\ core_executed'[Len(core_executed')].action.kind = "Move"
                /\ core_executed'[Len(core_executed')].move = "uturn"
                /\ core_executed'[Len(core_executed')].target_after.current_hp
                      < core_executed'[Len(core_executed')].target.current_hp
                /\ \/ \E i \in DOMAIN state'.bench[s] :
                         /\ state'.bench[s][i].species
                               = state.pokemon[s].species
                         /\ ~Pokemon_is_fainted(state'.bench[s][i])
                   \/ /\ state'.pokemon[s].species = state.pokemon[s].species
                      /\ ~Pokemon_is_fainted(state'.pokemon[s])
                /\ \E i \in DOMAIN state.bench[s] :
                      ~Pokemon_is_fainted(state.bench[s][i]))
               => /\ state'.pokemon[s].species # state.pokemon[s].species
                  /\ \A i \in DOMAIN state.bench[s] :
                        (/\ state.bench[s][i].species
                               = state'.pokemon[s].species
                         /\ state.side[s].stealth_rock)
                        => state'.pokemon[s].current_hp
                              < state.bench[s][i].current_hp)]_vars

\* C15: when a step of the engine ends in which a status move was blocked by
\* taunt, the events of its StepResult hold a move event of the blocked
\* side, both actions of the turn have been resolved and the end-of-turn
\* phase has run (the turn counter has advanced)
C15_BlockedRecorded ==
    [][(/\ driver = "step"
        /\ core_pc = "finish"
        /\ core_pc' = "begin")
       => \A k \in DOMAIN core_executed :
             (/\ core_executed[k].action.kind = "Move"
              /\ core_executed[k].move # "None"
              /\ get_move(core_executed[k].move)[1].category = "Status"
              /\ core_executed[k].user.taunt_turns > 0)
             => /\ \E i \in DOMAIN step_result'.events :
                      /\ step_result'.events[i].kind = "move"
                      /\ step_result'.events[i].label
                            = (IF core_executed[k].side = 0 THEN "side_a"
                               ELSE "side_b")
                /\ Len(core_executed) = 2
                /\ state'.turn = state.turn + 1]_vars

\* C16: when a turn is planned for a side whose active battler has not
\* fainted and has no move with PP left, and the caller passes no action or
\* a move index for it, the move planned for the side is Struggle: type
\* normal, power 50, recoil <<1, 4>>
C16_StruggleFallback ==
    [][(/\ driver = "simple"
        /\ pc = "idle"
        /\ pc' = "turn")
       => \A s \in Sides :
             (/\ ~is_fainted(active(battle, s))
              /\ \A i \in DOMAIN active(battle, s).move_pp :
                    active(battle, s).move_pp[i] <= 0)
             => \A k \in DOMAIN actions' :
                   (/\ actions'[k].side = s
                    /\ actions'[k].switch_target = NoIdx)
                   => /\ actions'[k].move_def.name = "Struggle"
                      /\ actions'[k].move_def.move_type = "normal"
                      /\ actions'[k].move_def.power = 50
                      /\ actions'[k].move_def.recoil = <<1, 4>>]_vars

\* C17: every PP counter of every battler is at least 0 in every state, and
\* an action with a move index changes the battle only if the PP of that
\* move was above 0 just before, in which case it takes exactly one PP
C17_PpNonNegative ==
    /\ [](driver = "simple" =>
            \A s \in Sides : \A i \in DOMAIN battle.team[s] :
               \A m \in DOMAIN battle.team[s][i].move_pp :
                  battle.team[s][i].move_pp[m] >= 0)
    /\ [][(/\ driver = "simple"
           /\ pc = "turn"
           /\ actions # <<>>
           /\ Head(actions).move_index # NoIdx
           /\ battle' # battle)
          => LET s == Head(actions).side
                 m == Head(actions).move_index
             IN  /\ active(battle, s).move_pp[m] > 0
                 /\ battle'.team[s][battle.active[s]].move_pp[m]
                       = active(battle, s).move_pp[m] - 1]_vars

\* a move index was passed for a move without PP and nothing was executed,
\* after the last PP of that move had been used
C17_Witness ==
    /\ driver = "simple"
    /\ \E k \in DOMAIN executed :
          /\ executed[k].action.move_index # NoIdx
          /\ executed[k].user.move_pp[executed[k].action.move_index] = 0
          /\ executed[k].target_after = executed[k].target
          /\ ~executed[k].hit

\* C18: at the n-th end-of-turn phase (n = 1, 2, 3) that a battler goes
\* through after it was badly poisoned, without leaving the field, the
\* phase takes n/16 of its max HP from it, and no toxic counter is ever
\* above 15
C18_ToxicRamp ==
    /\ [](/\ driver = "simple" =>
               \A s \in Sides : \A i \in DOMAIN battle.team[s] :
                  battle.team[s][i].toxic_counter <= 15
          /\ driver \in {"team", "engine"} =>
               \A s \in CoreSides :
                  /\ state.pokemon[s].toxic_counter <= 15
                  /\ \A i \in DOMAIN state.bench[s] :
                        state.bench[s][i].toxic_counter <= 15)
    /\ [][/\ (/\ driver = "simple"
              /\ pc = "turn"
              /\ pc' = "idle"
              /\ actions = <<>>)
             => \A s \in Sides :
                   (/\ active(battle, s).status = "Toxic"
                    /\ ~is_fainted(active(battle, s))
                    /\ toxic_age[s] < 3)
                   => battle'.team[s][battle.active[s]].current_hp
                         = active(battle, s).current_hp
                           - (max_hp(active(battle, s))
                              * (toxic_age[s] + 1)) \div 16
          /\ (/\ driver \in {"team", "engine"}
              /\ core_pc = "finish"
              /\ core_pc' = "begin")
             => \A s \in CoreSides :
                   (/\ state.pokemon[s].status = "Poison"
                    /\ state.pokemon[s].toxic_counter > 0
                    /\ ~Pokemon_is_fainted(state.pokemon[s])
                    /\ state'.pokemon[s].species = state.pokemon[s].species
                    /\ toxic_age[s] < 3)
                   => state'.pokemon[s].current_hp
                         = Max(state.pokemon[s].current_hp
                               - (Roster[state.pokemon[s].species].stats.hp
                                  * (toxic_age[s] + 1)) \div 16, 0)]_vars

\* C19: the sleep-turn counter of a battler that stays asleep never goes up,
\* a battler is asleep only while its counter is above zero, the counter is
\* never above the largest draw, and every time the turn comes to a sleeping
\* active battler (its move in the legacy engine, the end of the turn in the
\* core engine) it loses one turn or the battler wakes
C19_SleepCountdown ==
    /\ [](/\ driver = "simple" =>
               \A s \in Sides : \A i \in DOMAIN battle.team[s] :
                  /\ battle.team[s][i].sleep_turns <= 3
                  /\ battle.team[s][i].status = "Sleep"
                        => battle.team[s][i].sleep_turns > 0
          /\ driver \in {"team", "engine", "step"} =>
               \A s \in CoreSides :
                  /\ state.pokemon[s].sleep_turns <= 4
                  /\ state.pokemon[s].status = "Sleep"
                        => state.pokemon[s].sleep_turns > 0)
    /\ [][/\ driver = "simple" =>
               \A s \in Sides : \A i \in DOMAIN battle.team[s] :
                  (/\ battle.team[s][i].status = "Sleep"
                   /\ battle'.team[s][i].status = "Sleep")
                  => battle'.team[s][i].sleep_turns
                        <= battle.team[s][i].sleep_turns
          /\ (/\ driver = "simple" /\ pc = "turn" /\ actions # <<>>
              /\ pc' = "turn" /\ Len(executed') > Len(executed)
              /\ Head(actions).move_index # NoIdx
              /\ active(battle, Head(actions).side).status = "Sleep")
             => LET s == Head(actions).side
                    after == battle'.team[s][battle.active[s]]
                IN  \/ after.status # "Sleep"
                    \/ after.sleep_turns
                          = active(battle, s).sleep_turns - 1
          /\ driver \in {"team", "engine", "step"} =>
               \A s \in CoreSides :
                  (/\ state.pokemon[s].status = "Sleep"
                   /\ state'.pokemon[s].status = "Sleep"
                   /\ state'.pokemon[s].species = state.pokemon[s].species)
                  => state'.pokemon[s].sleep_turns
                        <= state.pokemon[s].sleep_turns
          /\ (/\ driver \in {"team", "engine", "step"}
              /\ core_pc = "finish"
              /\ core_pc' = "begin")
             => \A s \in CoreSides :
                   (/\ state.pokemon[s].status = "Sleep"
                    /\ state'.pokemon[s].species = state.pokemon[s].species)
                   => \/ state'.pokemon[s].status # "Sleep"
                      \/ state'.pokemon[s].sleep_turns
                            = state.pokemon[s].sleep_turns - 1]_vars

\* a step in which a hit lands on the holder of a focus sash: a hit at full
\* HP with the sash unused whose damage is at least the HP of the holder
\* leaves it at 1 HP with the sash used up, and a hit on a holder whose sash
\* is used up whose damage is at least its HP leaves it fainted, at full HP
\* too; sturdy tells whether the holders with the ability Sturdy are included
SashStep(sturdy) ==
    /\ (/\ driver = "simple" /\ pc = "turn" /\ actions # <<>>
        /\ Len(executed') = Len(executed) + 1
        /\ executed'[Len(executed')].hit
        /\ item_effect(executed'[Len(executed')].target.pokemon.item).sash_like
        /\ sturdy \/ ~has_ability(executed'[Len(executed')].target, "Sturdy"))
       => LET e == executed'[Len(executed')]
          IN  \A d \in Draws(battle, e.action) :
                 (battle' = execute_action(battle, e.action, d))
                 => LET dmg == compute_damage(battle, e.action.side,
                                   opponent(e.action.side),
                                   e.action.move_def, d.crit, d.roll)
                    IN  /\ (/\ e.target.current_hp = max_hp(e.target)
                            /\ ~e.target.sash_used
                            /\ dmg >= e.target.current_hp)
                           => /\ e.target_after.current_hp = 1
                              /\ e.target_after.sash_used
                        /\ (e.target.sash_used /\ dmg >= e.target.current_hp)
                           => is_fainted(e.target_after)
    /\ (/\ driver \in {"team", "engine", "step"}
        /\ core_pc \in {"first", "second"}
        /\ Len(core_executed') = Len(core_executed) + 1
        /\ core_executed'[Len(core_executed')].move # "None"
        /\ core_executed'[Len(core_executed')].target_after.current_hp
              # core_executed'[Len(core_executed')].target.current_hp
        /\ core_has_item(core_executed'[Len(core_executed')].target,
                         "focussash")
        /\ sturdy \/ ~Pokemon_has_ability(
                         core_executed'[Len(core_executed')].target, "Sturdy"))
       => LET e == core_executed'[Len(core_executed')]
          IN  \A d \in CoreDraws(state, e.side, e.action) :
                 (state' = resolve_action(state, e.side, e.action,
                                          other(e.side), d)[1])
                 => LET dmg == IF fixed_damage(e.move, e.user) # <<>>
                               THEN fixed_damage(e.move, e.user)[1]
                               ELSE hit_damage(e.user, e.target,
                                               get_move(e.move)[1], e.move,
                                               d.crit, d.roll)
                    IN  /\ (/\ e.target.current_hp
                                  = Roster[e.target.species].stats.hp
                            /\ ~e.target.item_consumed
                            /\ dmg >= e.target.current_hp)
                           => /\ e.target_after.current_hp = 1
                              /\ e.target_after.item_consumed
                        /\ (/\ e.target.item_consumed
                            /\ dmg >= e.target.current_hp)
                           => Pokemon_is_fainted(e.target_after)

\* C20: a battler without the ability Sturdy that holds a focus sash and is
\* at full HP survives the first hit that would knock it out with exactly
\* 1 HP and the sash is consumed; a later hit that would knock it out does
\* knock it out, also when the battler is back at full HP
C20_SashOnce == [][SashStep(FALSE)]_vars

\* C20 as the claim states it, for every holder of a focus sash
C20_SashOnceAnyHolder == [][SashStep(TRUE)]_vars

\* a hit knocks out a holder that is at full HP again after its sash saved it
C20_Witness ==
    /\ driver \in {"team", "engine"}
    /\ \E k \in DOMAIN core_executed :
          /\ core_has_item(core_executed[k].target, "focussash")
          /\ ~Pokemon_has_ability(core_executed[k].target, "Sturdy")
          /\ core_executed[k].target.item_consumed
          /\ core_executed[k].target.current_hp
                = Roster[core_executed[k].target.species].stats.hp
          /\ Pokemon_is_fainted(core_executed[k].target_after)

\* C21: a step in which the move Substitute is used: its user is never left
\* below 1 HP; when the HP of the user is not greater than a quarter of its
\* max HP (at least 1) the move fails and the step changes nothing but the
\* record of the move used; otherwise, with no substitute standing, the user
\* pays exactly that cost and the substitute gets that many HP
C21_SubstituteCost ==
    [][(/\ driver \in {"team", "engine", "step"}
        /\ core_pc \in {"first", "second"}
        /\ Len(core_executed') = Len(core_executed) + 1
        /\ core_executed'[Len(core_executed')].move = "substitute"
        /\ core_executed'[Len(core_executed')].effect)
       => LET e == core_executed'[Len(core_executed')]
              cost == Max(Roster[e.user.species].stats.hp \div 4, 1)
          IN  /\ state'.pokemon[e.side].current_hp >= 1
              /\ e.user.current_hp <= cost
                 => state' = [state EXCEPT !.pokemon[e.side] =
                                [set_choice_lock_move(@, "substitute")
                                    EXCEPT !.last_move = "substitute"]]
              /\ (e.user.current_hp > cost /\ e.user.substitute_hp = 0)
                 => /\ state'.pokemon[e.side].current_hp
                          = e.user.current_hp - cost
                    /\ state'.pokemon[e.side].substitute_hp = cost]_vars

\* the substitute a battler made is broken and in the same turn the battler
\* fails to make another for want of HP
C21_Witness ==
    /\ driver = "engine"
    /\ \E j, k \in DOMAIN core_executed :
          /\ j < k
          /\ core_executed[j].target.substitute_hp
                = Max(Roster[core_executed[j].target.species].stats.hp \div 4, 1)
          /\ core_executed[j].target_after.substitute_hp = 0
          /\ core_executed[k].move = "substitute"
          /\ core_executed[k].effect
          /\ core_executed[k].user.substitute_hp = 0
          /\ core_executed[k].user.current_hp
                <= Max(Roster[core_executed[k].user.species].stats.hp \div 4, 1)
          /\ state.pokemon[core_executed[k].side].current_hp
                = core_executed[k].user.current_hp

\* a step in which a damaging move lands on a battler whose substitute
\* stands; sound tells whether the step is one of a sound move
SubstituteHit(sound) ==
    /\ driver \in {"team", "engine", "step"}
    /\ core_pc \in {"first", "second"}
    /\ Len(core_executed') = Len(core_executed) + 1
    /\ core_executed'[Len(core_executed')].move # "None"
    /\ core_executed'[Len(core_executed')].effect
    /\ get_move(core_executed'[Len(core_executed')].move)[1].category
          # "Status"
    /\ get_move(core_executed'[Len(core_executed')].move)[1].sound = sound
    /\ sound \/ ~bypasses_substitute(
                    get_move(core_executed'[Len(core_executed')].move)[1])
    /\ core_executed'[Len(core_executed')].target.substitute_hp > 0

\* the damage of the hit of an executed move under the draws d
SubstituteDamage(e, d) ==
    IF ~d.hit THEN 0
    ELSE IF fixed_damage(e.move, e.user) # <<>>
    THEN fixed_damage(e.move, e.user)[1]
    ELSE hit_damage(e.user, e.target, get_move(e.move)[1], e.move,
                    d.crit, d.roll)

\* C22: a damaging move that does not bypass substitutes and lands on a
\* battler whose substitute HP is above 0 leaves the HP of the battler as it
\* was and takes its damage from the substitute, which stops at 0 when the
\* damage exceeds what the substitute had left
C22_SubstituteAbsorbs ==
    [][SubstituteHit(FALSE)
       => LET e == core_executed'[Len(core_executed')]
          IN  \A d \in CoreDraws(state, e.side, e.action) :
                 (state' = resolve_action(state, e.side, e.action,
                                          other(e.side), d)[1])
                 => /\ e.target_after.current_hp = e.target.current_hp
                    /\ e.target_after.substitute_hp
                          = Max(e.target.substitute_hp
                                   - SubstituteDamage(e, d), 0)]_vars

\* a hit whose least damage exceeds the HP the substitute had left broke the
\* substitute and its owner kept its HP
C22_Witness ==
    /\ driver = "engine"
    /\ \E k \in DOMAIN core_executed :
          /\ core_executed[k].move = "tackle"
          /\ core_executed[k].effect
          /\ core_executed[k].target.substitute_hp > 0
          /\ hit_damage(core_executed[k].user, core_executed[k].target,
                        get_move("tackle")[1], "tackle", FALSE, 85)
                > core_executed[k].target.substitute_hp
          /\ core_executed[k].target_after.substitute_hp = 0
          /\ core_executed[k].target_after.current_hp
                = core_executed[k].target.current_hp
          /\ core_executed[k].target_after.current_hp > 0

\* C23: a damaging sound move that lands on a battler whose substitute HP is
\* above 0 takes its damage from the HP of the battler and leaves the HP of
\* the substitute as it was
C23_SoundBypasses ==
    [][SubstituteHit(TRUE)
       => LET e == core_executed'[Len(core_executed')]
          IN  \A d \in CoreDraws(state, e.side, e.action) :
                 (state' = resolve_action(state, e.side, e.action,
                                          other(e.side), d)[1]
                  /\ SubstituteDamage(e, d) > 0)
                 => /\ e.target_after.current_hp < e.target.current_hp
                    /\ e.target_after.current_hp
                          = Max(e.target.current_hp
                                   - SubstituteDamage(e, d), 0)
                    /\ e.target_after.substitute_hp
                          = e.target.substitute_hp]_vars

\* Hyper Voice took HP from a battler whose substitute stood and stands
C23_Witness ==
    /\ driver = "engine"
    /\ \E k \in DOMAIN core_executed :
          /\ core_executed[k].move = "hypervoice"
          /\ core_executed[k].effect
          /\ core_executed[k].target.substitute_hp > 0
          /\ core_executed[k].target_after.current_hp
                < core_executed[k].target.current_hp
          /\ core_executed[k].target_after.substitute_hp
                = core_executed[k].target.substitute_hp

\* C24: the action mcts_action returns after its iterations is a `my` action
\* of the root whose total value, summed over the root children that share
\* it, is the highest, and among the actions of the highest total one of the
\* highest mean value
C24_HighestTotal ==
    [][(/\ driver = "mcts"
        /\ Len(mcts'.returned) = Len(mcts.returned) + 1
        /\ mcts.node.children # <<>>)
       => LET r == mcts'.returned[Len(mcts'.returned)]
              mine == {a.my : a \in DOMAIN mcts.node.children}
          IN  /\ r \in mine
              /\ \A o \in mine :
                    /\ aggregate(mcts.node, o)[1] <= aggregate(mcts.node, r)[1]
                    /\ aggregate(mcts.node, o)[1] = aggregate(mcts.node, r)[1]
                       => aggregate(mcts.node, o)[1]
                             * aggregate(mcts.node, r)[2]
                          <= aggregate(mcts.node, r)[1]
                                * aggregate(mcts.node, o)[2]]_vars

\* C25: a call of mcts_action with 0 iterations returns the `my` component
\* of the first joint action enumerate_actions lists for the root
C25_ZeroIterations ==
    [][(/\ driver = "mcts"
        /\ mcts.cap = 0
        /\ Len(mcts'.returned) = Len(mcts.returned) + 1)
       => mcts'.returned[Len(mcts'.returned)]
             = enumerate_actions(battle, mcts.side)[1].my]_vars

\* a call with 0 iterations has returned at a root where the searching side
\* has more than one action to choose from
C25_Witness ==
    /\ driver = "mcts"
    /\ mcts.cap = 0
    /\ Len(mcts.returned) >= 1
    /\ Len(option_list(battle, mcts.side)) > 1
    /\ mcts.returned[1] = option_list(battle, mcts.side)[1]

\* C26: with a time budget set, mcts_action looks at the elapsed time before
\* it starts an iteration and before every descent step after the first of
\* an iteration: when the budget is exceeded at that point no iteration is
\* started and the descent is not continued, so the statistics of the tree
\* stay as they are until the best root action is returned
C26_BudgetPolled ==
    [][(/\ driver = "budget"
        /\ mcts.expired
        /\ mcts.phase = "while" \/ mcts.path # <<>>)
       => /\ mcts'.iterations = mcts.iterations
          /\ mcts'.node = mcts.node]_vars

\* the move idx of the side knocks out the last battler of the other side in
\* the turn it is used, whatever the other side does
KnocksOut(b, side, idx) ==
    /\ alive_count(b, opponent(side)) = 1
    /\ \A opp \in sample_action(b, opponent(side)) :
          \A b2 \in next_state(b, side, [my |-> [kind |-> "Move", idx |-> idx],
                                         opp |-> opp]) :
              alive_count(b2, opponent(side)) = 0

\* C27: at a root where one of the two moves of the searching side knocks
\* out the last battler of the opponent this turn and the other move deals
\* no damage, mcts_action run with as many iterations as the root has joint
\* actions returns the move that knocks out
C27_FinisherReturned ==
    (driver = "finisher" /\ mcts.returned # <<>>)
    => \A i, j \in {0, 1} :
          (/\ i # j
           /\ legal_actions(battle, mcts.side) = {0, 1}
           /\ KnocksOut(battle, mcts.side, i)
           /\ active(battle, mcts.side).pokemon.moves[j].category = "Status")
          => mcts.returned[1] = [kind |-> "Move", idx |-> i]

\* the win rate of a cell computed from the results of simulate_battle on
\* the values of the generator of the cell alone
cell_win_rate(m, t) ==
    LET key(k) == <<t, <<cell_rng(m.seed, m.tasks[t]).seed, k>>>>
        points[k \in -1 .. m.sims_per_cell - 1] ==
            IF k < 0 THEN 0
            ELSE points[k - 1]
                 + (IF key(k) \notin DOMAIN m.memo THEN -1
                    ELSE IF m.memo[key(k)] = "AWins" THEN 2
                    ELSE IF m.memo[key(k)] = "Tie" THEN 1 ELSE 0)
    IN  <<points[m.sims_per_cell - 1], 2 * m.sims_per_cell>>

\* C28: two calls of compute_matrix with the same teams, sims_per_cell and
\* seed return the same matrix whatever the order in which the workers took
\* and ran the cells, and every cell of a returned matrix is the win rate
\* over the battles run on the values of the generator seeded from the seed
\* and the two indices of the cell
C28_MatrixDeterministic ==
    driver = "matrix"
    => /\ Len(matrix.returned) = 2
          => matrix.returned[1] = matrix.returned[2]
       /\ \A n \in DOMAIN matrix.returned :
          \A t \in DOMAIN matrix.tasks :
             matrix.returned[n][matrix.tasks[t].a_idx]
                               [matrix.tasks[t].b_idx]
                = cell_win_rate(matrix, t)

\* two calls that started with different cells have returned a matrix
\* whose cells are not all equal
C28_Witness ==
    /\ driver = "matrix"
    /\ Len(matrix.returned) = 2
    /\ matrix.reordered
    /\ \E b1, b2 \in DOMAIN matrix.returned[1][0] :
          matrix.returned[1][0][b1] # matrix.returned[1][0][b2]

\* C29: the step that plans the actions of a turn and puts them in order
\* changes nothing in the battle: the simple driver leaves run_turn with the
\* battle it had, but for the protecting flags and the event log it clears
\* before and after planning, and the core driver leaves determine_order
\* with the state its start of turn made
C29_OrderReadOnly ==
    [][/\ (driver = "simple" /\ pc = "idle" /\ pc' = "turn")
          => battle' = [battle EXCEPT
                 !.team["A"][battle.active["A"]].protecting = FALSE,
                 !.team["B"][battle.active["B"]].protecting = FALSE,
                 !.last_turn_move_events = <<>>]
       /\ (driver \in {"team", "engine", "step"} /\ core_pc = "begin"
           /\ core_pc' = "first")
          => state' \in begin_turn(state, driver)]_vars

\* C30: a scheduled move is executed only while the battler that was active
\* on its side when the actions were chosen is still active and not fainted:
\* run_turn_with_actions executes a move action only for the slot recorded
\* in the action, and the second resolve_action of execute_turn that uses a
\* move is made by the battler the first action found on that side
C30_StaleSkipped ==
    [][( /\ (driver = "simple" /\ Len(executed') = Len(executed) + 1) =>
              LET e == executed'[Len(executed')]
              IN  e.action.switch_target = NoIdx =>
                     /\ battle.active[e.action.side] = e.action.battler_slot
                     /\ ~is_fainted(e.user)
         /\ (/\ driver \in {"team", "engine", "step"}
             /\ core_pc = "second"
             /\ Len(core_executed) = 1
             /\ Len(core_executed') = 2) =>
              LET e == core_executed'[2]
              IN  (e.action.kind = "Move" /\ e.effect) =>
                     /\ e.user.species = core_executed[1].target.species
                     /\ ~Pokemon_is_fainted(e.user) )]_vars

\* the spikes update a resolved action produces for the side of its target:
\* the status move Spikes when it is used, and the secondary effect of
\* Ceaseless Edge when the hit damages a target that survives it
ProducesSpikes(e) ==
    \/ e.move = "spikes" /\ e.effect
    \/ /\ e.move = "ceaselessedge" /\ e.effect
       /\ e.target_after.species = e.target.species
       /\ e.target_after.current_hp < e.target.current_hp
       /\ e.target_after.current_hp > 0

\* C31: the environment update an action produces, by a status move or by
\* the secondary side effect of a damaging move, is in the battle state once
\* the action is resolved, applied exactly once: a produced spikes update
\* adds one layer (up to 3) on the target's side, and no layer is added
\* otherwise
C31_EnvUpdateOnce ==
    [][( (/\ driver \in {"team", "engine", "step"}
          /\ core_pc \in {"first", "second"}
          /\ Len(core_executed') = Len(core_executed) + 1) =>
            LET e == core_executed'[Len(core_executed')]
            IN  /\ state'.side[e.side].spikes = state.side[e.side].spikes
                /\ state'.side[other(e.side)].spikes =
                     IF ProducesSpikes(e)
                     THEN Min(state.side[other(e.side)].spikes + 1, 3)
                     ELSE state.side[other(e.side)].spikes )]_vars

\* C32: when the actions of a turn have been chosen and none has executed
\* yet, the per-turn flags of both active battlers are false, under the
\* battle loop and under the step engine (of the seven flags the rosters
\* can raise flinched and magic_coat_active, and hold protect_active)
C32_TurnFlagsCleared ==
    (driver \in {"team", "engine", "step"} /\ core_pc = "first") =>
        \A s \in CoreSides :
            /\ ~state.pokemon[s].protect_active
            /\ ~state.pokemon[s].magic_coat_active
            /\ ~state.pokemon[s].flinched

\* the battle with the stages a critical hit of the side is said to ignore
\* brought to 0: the negative offensive stages of the attacker and the
\* positive defensive stages of the defender
unfavourable_cleared(b, side, target_side) ==
    [b EXCEPT
       !.team[side][b.active[side]].stat_stages.atk = Max(@, 0),
       !.team[side][b.active[side]].stat_stages.spa = Max(@, 0),
       !.team[target_side][b.active[target_side]].stat_stages.def = Min(@, 0),
       !.team[target_side][b.active[target_side]].stat_stages.spd = Min(@, 0)]

\* C33: a critical hit ignores only the unfavourable stages. Its damage is
\* the damage of the same critical hit with the unfavourable stages at 0 (a
\* +3 Def target takes what a +0 Def target takes), and the other stages
\* apply: it is 3/2 of what the hit deals without the critical hit once the
\* unfavourable stages are at 0, up to the rounding of that damage
C33_CritStages ==
    [][( (/\ driver = "simple" /\ pc = "turn" /\ actions # <<>>
          /\ Len(executed') = Len(executed) + 1) =>
            LET e == executed'[Len(executed')]
                cleared == unfavourable_cleared(battle, e.action.side,
                                                opponent(e.action.side))
            IN  \A d \in Draws(battle, e.action) :
                  (battle' = execute_action(battle, e.action, d) /\ d.crit)
                  => LET dmg == compute_damage(battle, e.action.side,
                                    opponent(e.action.side),
                                    e.action.move_def, TRUE, d.roll)
                         plain == compute_damage(cleared, e.action.side,
                                    opponent(e.action.side),
                                    e.action.move_def, FALSE, d.roll)
                     IN  /\ dmg = compute_damage(cleared, e.action.side,
                                    opponent(e.action.side),
                                    e.action.move_def, TRUE, d.roll)
                         /\ (3 * plain) \div 2 <= dmg
                         /\ dmg <= (3 * plain + 3) \div 2 )]_vars

\* the bench slots of a side the Pokemon that is active after the step came
\* from
came_from(side_idx) ==
    {i \in DOMAIN state.bench[side_idx] :
        /\ state.bench[side_idx][i].species = state'.pokemon[side_idx].species
        /\ state.pokemon[side_idx].species # state'.pokemon[side_idx].species}

\* C34: after a healing wish the next Pokemon of the side that switches in
\* is at full HP without a major status and the pending flag is cleared by
\* that switch-in; a switch-in with no healing wish pending is not healed
C34_WishHealsNext ==
    [][(\A s \in CoreSides : \A i \in came_from(s) :
          IF state.side[s].healing_wish_pending
          THEN /\ state'.pokemon[s].current_hp =
                    Roster[state'.pokemon[s].species].stats.hp
               /\ state'.pokemon[s].status = "None"
               /\ ~state'.side[s].healing_wish_pending
          ELSE /\ state'.pokemon[s].current_hp
                    <= state.bench[s][i].current_hp
               /\ ~state'.side[s].healing_wish_pending)]_vars

\* C34 as the code has it: the healing wish is resolved after the entry
\* hazards and only on a Pokemon they did not faint; one they fainted is
\* left fainted and the wish stays pending for the switch-in after it
C34_WishHealsSurvivor ==
    [][(\A s \in CoreSides : \A i \in came_from(s) :
          IF state.side[s].healing_wish_pending
          THEN IF Pokemon_is_fainted(
                      apply_entry_hazards(state.bench[s][i],
                                          state.side[s])[1])
               THEN /\ Pokemon_is_fainted(state'.pokemon[s])
                    /\ state'.side[s].healing_wish_pending
               ELSE /\ state'.pokemon[s].current_hp =
                         Roster[state'.pokemon[s].species].stats.hp
                    /\ state'.pokemon[s].status = "None"
                    /\ ~state'.side[s].healing_wish_pending
          ELSE /\ state'.pokemon[s].current_hp
                    <= state.bench[s][i].current_hp
               /\ ~state'.side[s].healing_wish_pending)]_vars

\* the lead attacked, left for the user of the healing wish and came back
\* over Stealth Rock when the user fainted: it stands at full HP without a
\* status and the wish is spent
C34_Witness ==
    /\ driver = "engine"
    /\ core_pc = "begin"
    /\ state.side[0].stealth_rock
    /\ ~state.side[0].healing_wish_pending
    /\ state.pokemon[0].species = "Brawn"
    /\ state.pokemon[0].current_hp = Roster.Brawn.stats.hp
    /\ state.pokemon[0].status = "None"
    /\ state.pokemon[1].current_hp = Roster.Shard.stats.hp - Roster.Brawn.level
    /\ \E i \in DOMAIN state.bench[0] :
          /\ state.bench[0][i].species = "Wisher"
          /\ Pokemon_is_fainted(state.bench[0][i])

\* the weather an entry ability sets and the terrain an entry ability sets
WeatherOfAbility ==
    {<<"Drought", "Sun">>, <<"Drizzle", "Rain">>, <<"Sand Stream", "Sand">>,
     <<"Snow Warning", "Hail">>}

FieldOfAbility ==
    {<<"Grassy Surge", "Grassy">>, <<"Electric Surge", "Electric">>,
     <<"Psychic Surge", "Psychic">>, <<"Misty Surge", "Misty">>}

\* between the core states s and t the weather and the terrain are either
\* untouched or set, with a clock of 5, by the ability of a Pokemon that
\* came in
climate_kept_or_set(s, t) ==
    /\ \/ t.weather = s.weather /\ t.weather_turns = s.weather_turns
       \/ /\ t.weather_turns = 5
          /\ \E side \in CoreSides :
                /\ t.pokemon[side].species # s.pokemon[side].species
                /\ <<t.pokemon[side].ability, t.weather>> \in WeatherOfAbility
    /\ \/ t.field = s.field /\ t.field_turns = s.field_turns
       \/ /\ t.field_turns = 5
          /\ \E side \in CoreSides :
                /\ t.pokemon[side].species # s.pokemon[side].species
                /\ <<t.pokemon[side].ability, t.field>> \in FieldOfAbility

\* the end-of-turn phase from the core state s to t takes one turn off each
\* clock and removes the weather or terrain whose clock reaches 0
climate_counted_down(s, t) ==
    /\ t.weather_turns = Max(s.weather_turns - 1, 0)
    /\ t.weather = IF t.weather_turns = 0 THEN "None" ELSE s.weather
    /\ t.field_turns = Max(s.field_turns - 1, 0)
    /\ t.field = IF t.field_turns = 0 THEN "None" ELSE s.field

\* a weather or terrain is present exactly while its clock runs, and in a
\* battle of the engine without a bench, where only the leads can have set
\* them when the battle started, they are present before each of the first
\* five turns has ended and absent from the end of the fifth on
climate_present ==
    /\ driver = "simple" =>
          /\ battle.weather.turns \in 0 .. 5
          /\ (battle.weather.current # "None") <=> (battle.weather.turns > 0)
    /\ driver = "engine" =>
          /\ state.weather_turns \in 0 .. 5
          /\ state.field_turns \in 0 .. 5
          /\ (state.weather # "None") <=> (state.weather_turns > 0)
          /\ (state.field # "None") <=> (state.field_turns > 0)
          /\ (core_pc = "begin" /\ \A s \in CoreSides : DOMAIN state.bench[s] = {}) =>
                /\ (state.weather # "None") <=>
                      /\ state.turn < 5
                      /\ \E s \in CoreSides : \E w \in WeatherOfAbility :
                            state.pokemon[s].ability = w[1]
                /\ (state.field # "None") <=>
                      /\ state.turn < 5
                      /\ \E s \in CoreSides : \E f \in FieldOfAbility :
                            state.pokemon[s].ability = f[1]

\* what a step does to the clocks: the end-of-turn phase counts them down,
\* a move that sets a weather or a Pokemon that comes in with a weather or
\* terrain ability starts the clock at 5, and nothing else touches them
climate_step ==
    /\ driver = "simple" =>
          IF pc = "turn" /\ pc' = "idle" /\ actions = <<>>
          THEN /\ battle'.weather.turns = Max(battle.weather.turns - 1, 0)
               /\ battle'.weather.current =
                     IF battle'.weather.turns = 0 THEN "None"
                     ELSE battle.weather.current
          ELSE IF Len(executed') > Len(executed)
          THEN \/ battle'.weather = battle.weather
               \/ /\ Head(actions).move_def.set_weather # "None"
                  /\ battle'.weather =
                        [current |-> Head(actions).move_def.set_weather,
                         turns |-> 5]
          ELSE battle'.weather = battle.weather
    /\ driver = "engine" =>
          IF core_pc = "finish"
          THEN \A s1 \in handle_simultaneous_faints(state) :
                  (state' = [apply_end_of_turn_effects(s1) EXCEPT !.turn = @ + 1])
                      => /\ climate_kept_or_set(state, s1)
                         /\ climate_counted_down(s1, state')
          ELSE climate_kept_or_set(state, state')

\* C35: a weather or terrain set by a move or an on-entry ability lasts for
\* exactly 5 end-of-turn phases unless it is set again: it is set with a
\* clock of 5, every end-of-turn phase takes exactly one off the clock,
\* nothing else changes it, and the weather or terrain is there exactly
\* while the clock is above 0, so it is still present after the 4th
\* end-of-turn phase and absent after the 5th
C35_ClimateFiveTurns == [](climate_present) /\ [][(climate_step)]_vars

\* five turns of a battle of the engine without a bench have ended with both
\* leads standing: the rain and the electric terrain they brought are gone
C35_Witness ==
    /\ driver = "engine"
    /\ core_pc = "begin"
    /\ state.turn = 5
    /\ \A s \in CoreSides : DOMAIN state.bench[s] = {}
    /\ state.pokemon[0].ability = "Drizzle"
    /\ state.pokemon[1].ability = "Electric Surge"
    /\ ~Pokemon_is_fainted(state.pokemon[0])
    /\ ~Pokemon_is_fainted(state.pokemon[1])
    /\ state.weather = "None"
    /\ state.field = "None"

\* a Pokemon is badly poisoned: poisoned with a running toxic counter
badly_poisoned(pokemon) == pokemon.status = "Poison" /\ pokemon.toxic_counter > 0

\* from the core state s to t, a badly poisoned Pokemon that left the field
\* of a side sits on its bench still badly poisoned with a counter of 1, and
\* a badly poisoned Pokemon that came in has a counter of 1
toxic_reset_by_switch(s, t) ==
    \A side \in CoreSides :
        t.pokemon[side].species # s.pokemon[side].species =>
            /\ badly_poisoned(s.pokemon[side]) =>
                  \E i \in DOMAIN t.bench[side] :
                     /\ t.bench[side][i].species = s.pokemon[side].species
                     /\ t.bench[side][i].status = "Poison"
                     /\ t.bench[side][i].toxic_counter = 1
            /\ badly_poisoned(t.pokemon[side]) =>
                  t.pokemon[side].toxic_counter = 1

\* the end-of-turn phase from the core state s to t takes 1/16 of its max HP
\* (rounded down, at least 1) from a standing Pokemon whose counter is 1
toxic_baseline_damage(s, t) ==
    \A side \in CoreSides :
        (/\ badly_poisoned(s.pokemon[side])
         /\ s.pokemon[side].toxic_counter = 1
         /\ ~Pokemon_is_fainted(s.pokemon[side])) =>
            /\ t.pokemon[side].current_hp =
                  Max(s.pokemon[side].current_hp
                      - Max(Roster[s.pokemon[side].species].stats.hp \div 16, 1), 0)
            /\ t.pokemon[side].toxic_counter = 2

core_fainted_species(st, side) ==
    {p.species : p \in {q \in {st.pokemon[side]} \cup
                                {st.bench[side][i] : i \in DOMAIN st.bench[side]} :
                          Pokemon_is_fainted(q)}}

\* every member that is fainted in st is fainted in t
stays_fainted(st, t) ==
    \A side \in CoreSides :
        core_fainted_species(st, side) \subseteq core_fainted_species(t, side)

\* C38: a battler whose HP has reached 0 or less never has its HP raised
\* again, neither by a later step nor by a later effect of the end-of-turn
\* phase in which it fainted
C38_FaintingPermanent ==
    [][(/\ driver \in LegacyDrivers =>
             \A side \in Sides : \A i \in DOMAIN battle.team[side] :
                 battle.team[side][i].current_hp <= 0 =>
                     battle'.team[side][i].current_hp
                         <= battle.team[side][i].current_hp
        /\ driver = "engine" =>
             IF core_pc = "finish"
             THEN \A s1 \in handle_simultaneous_faints(state) :
                     (state' = [apply_end_of_turn_effects(s1) EXCEPT !.turn = @ + 1])
                         => /\ stays_fainted(state, s1)
                            /\ stays_fainted(s1, state')
                            /\ \A side \in CoreSides :
                                  Pokemon_is_fainted(
                                      end_of_turn_status(s1.pokemon[side]))
                                  => Pokemon_is_fainted(state'.pokemon[side])
             ELSE stays_fainted(state, state'))]_vars

\* C39: a driver runs at most as many turns as its loop has iterations, and
\* what it returns is the win of the side that has a battler left when the
\* other has none, a tie (legacy) or draw (core) when neither has one, and
\* a tie or draw for two sides with battlers left only at the turn cap
C39_ResultOfBattle ==
    /\ driver = "simple" =>
          /\ turn <= SimpleTurns(battle)
          /\ battle_result # "None" =>
                IF terminal_result(battle) # "None"
                THEN battle_result = terminal_result(battle)
                ELSE battle_result = "Tie" /\ turn = SimpleTurns(battle)
    /\ driver = "team" =>
          /\ state.turn <= CoreTurns(driver, state)
          /\ battle_result # "None" =>
                IF battle_outcome(state) # "None"
                THEN battle_result = battle_outcome(state)
                ELSE /\ battle_result = "Draw"
                     /\ state.turn = CoreTurns(driver, state)

\* the integer a reward of 1 is kept as in the statistics of a search
reward_unit == IF driver = "finisher" THEN RewardOne(battle) ELSE 2

\* the statistics of a node hold a value between 0 and its visits
value_in_range(stats) ==
    /\ 0 <= stats.total_value
    /\ stats.total_value <= reward_unit * stats.visits

\* the visits and the value of the child a joint action leads to, 0 before
\* the child is made
child_stats(node, action) ==
    IF action \in DOMAIN node.children THEN node.children[action]
    ELSE [visits |-> 0, total_value |-> 0]

\* the step is an iteration of the search: the root and the one child on
\* the path gain one visit and the same reward between 0 and 1, and no
\* other child changes
one_visit_on_path ==
    /\ mcts'.node.visits = mcts.node.visits + 1
    /\ 0 <= mcts'.node.total_value - mcts.node.total_value
    /\ mcts'.node.total_value - mcts.node.total_value <= reward_unit
    /\ DOMAIN mcts.node.children \subseteq DOMAIN mcts'.node.children
    /\ \E on_path \in DOMAIN mcts'.node.children :
          /\ mcts'.node.children[on_path].visits
                = child_stats(mcts.node, on_path).visits + 1
          /\ mcts'.node.children[on_path].total_value
                - child_stats(mcts.node, on_path).total_value
                = mcts'.node.total_value - mcts.node.total_value
          /\ \A a \in DOMAIN mcts'.node.children \ {on_path} :
                /\ a \in DOMAIN mcts.node.children
                /\ mcts'.node.children[a] = mcts.node.children[a]

=============================================================================
